---- MODULE Spec2Model ----
(***************************************************************************)
(* Recap: knowledge-base retrieval, LLM retry, chunking and the            *)
(* summarization pipeline, modelled from the Python sources.               *)
(*                                                                         *)
(* Strings whose content never matters are represented by their length    *)
(* (a document of 150 characters is the number 150); scores are integers  *)
(* standing for the similarity floats of the vector store.                *)
(***************************************************************************)
EXTENDS Integers, Sequences, FiniteSets, TLC

VARIABLES
    collection_exists,  \* client.collection_exists(COLLECTION_NAME)
    points,             \* the stored points, index = point id: [source, document]
    embedding_model,    \* KnowledgeBase.embedding_model
    indexed_model,      \* the model named in embedding_model.json, or "none"
    kb_pc,              \* "idle" | "returned": position of the retrieval caller
    kb_call,            \* frame of the last retrieve / retrieve_multi call
    llm_pc,             \* call_llm: "idle" | "attempt" | "sleeping" | "returned" | "raised"
    retries,            \* call_llm: the retries argument
    attempt,            \* call_llm: the loop variable
    llm_trace,          \* call_llm: provider calls and sleeps, in order
    llm_result,         \* call_llm: what the call returned or raised
    ch_pc,              \* "idle" | "returned": position of the chunker's caller
    ch_call,            \* frame of the last chunk_text / _chunk_text / chunk_transcript call
    run_pc,             \* position of the summarizer run
    run_args,           \* the arguments of the run
    kb_ref,             \* run: the local kb is not None
    kb_closes,          \* run: number of kb.close() calls
    kb_opens,           \* run: number of KnowledgeBase(...) opened
    pending,            \* cli run, per-file mode: the texts of the files still to process
    chunks,             \* run: the chunks to summarize
    chunk_summaries,    \* run: the summaries collected so far
    final_summary,      \* run: the summary as it stands
    written,            \* run: the files written, in order
    run_trace,          \* run: the calls made, in order (cli: since the chunks were made)
    exit_status,        \* run: "none" | 0 | 1
    fn_pc,              \* "idle" | "returned": position of a helper function's caller
    fn_call             \* frame of the last helper function call

storeVars == <<collection_exists, points, embedding_model, indexed_model>>

kbVars == <<storeVars, kb_pc, kb_call>>

runVars == <<run_pc, run_args, kb_ref, kb_closes, kb_opens, pending, chunks, chunk_summaries,
             final_summary, written, run_trace, exit_status>>

llmVars == <<llm_pc, retries, attempt, llm_trace, llm_result>>

chVars == <<ch_pc, ch_call>>

fnVars == <<fn_pc, fn_call>>

vars == <<kbVars, llmVars, chVars, runVars, fnVars>>

\* what the operations of one subsystem leave alone
notKB == <<llmVars, chVars, runVars, fnVars>>
notLLM == <<kbVars, chVars, runVars, fnVars>>
notChunk == <<kbVars, llmVars, runVars, fnVars>>
notRun == <<kb_pc, kb_call, llmVars, chVars, fnVars>>
notFn == <<kbVars, llmVars, chVars, runVars>>

(***************************************************************************)
(* Bounds of the model                                                     *)
(***************************************************************************)
MaxPoints == 2
MaxQueries == 2
MaxRetries == 3
MaxTextLen == 7
MaxSegments == 4
MaxFiles == 2
MaxRespLen == 5
MaxLines == 4
MaxNameLen == 3
MaxPathLen == 5
MaxWritten == 2

\* inputs drawn for the retrieval calls
ScoreSet == {1, 2, 3}
MinScoreSet == {2, 3}
TopKSet == {1, 2}
MaxCharsSet == {100, 200}
\* the chunks of the knowledge-base directory, in the order index_directory
\* stores them: the lengths of the source name and of the chunk text
CorpusDoc(k) ==
    IF k % 2 = 1 THEN [source |-> 8, document |-> 150]
    ELSE [source |-> 8, document |-> 20]

(***************************************************************************)
(* Generic helpers                                                         *)
(***************************************************************************)
Min2(a, b) == IF a <= b THEN a ELSE b

Range(s) == {s[i] : i \in 1..Len(s)}

SeqsUpTo(S, n) == UNION {[1..m -> S] : m \in 0..n}

(***************************************************************************)
(* core/knowledge_base.py : KnowledgeBase                                  *)
(***************************************************************************)
HeaderLen == 9        \* len("[From: ") + len("]\n")
EllipsisLen == 3      \* len("...")
SeparatorLen == 2     \* len("\n\n")
MinRemaining == 100   \* a truncated part is kept only if remaining > 100

NoCall == [op |-> "none"]

\* len(f"[From: {source}]\n{text}")
PartLen(point) == HeaderLen + point.source + point.document

\* _format_points: "if remaining > 100" decides whether a cut part is kept
KeepsRemainderMutant(remaining) == remaining >= MinRemaining

KeepsRemainder(remaining) == remaining > MinRemaining

\* _format_points: the loop over the points, from position i on
RECURSIVE FormatFrom(_, _, _, _, _)
FormatFrom(pts, i, parts, total_chars, max_chars) ==
    IF i > Len(pts) THEN parts
    ELSE LET part == PartLen(pts[i]) IN
         IF total_chars + part > max_chars
         THEN LET remaining == max_chars - total_chars IN
              IF KeepsRemainder(remaining)
              THEN Append(parts, [id |-> pts[i].id, len |-> remaining, cut |-> TRUE])
              ELSE parts
         ELSE FormatFrom(pts, i + 1,
                         Append(parts, [id |-> pts[i].id, len |-> part, cut |-> FALSE]),
                         total_chars + part, max_chars)

\* _format_points(points, max_chars): the parts that are joined
FormatPoints(pts, max_chars) == FormatFrom(pts, 1, <<>>, 0, max_chars)

\* len("\n\n".join(parts)), a cut part carrying its "..."
RECURSIVE PartsLen(_)
PartsLen(parts) ==
    IF parts = <<>> THEN 0
    ELSE parts[1].len + (IF parts[1].cut THEN EllipsisLen ELSE 0) + PartsLen(Tail(parts))

JoinLen(parts) ==
    IF parts = <<>> THEN 0 ELSE PartsLen(parts) + SeparatorLen * (Len(parts) - 1)

\* the score filter: p.score >= min_score
PassesMutant(score, min_score) == score > min_score

Passes(score, min_score) == score >= min_score

\* what client.query may return on a collection of n points with limit k:
\* at most k distinct points, best score first
ResultLists(n, k) ==
    {r \in SeqsUpTo([id : 1..n, score : ScoreSet], Min2(k, n)) :
        /\ \A i, j \in 1..Len(r) : i # j => r[i].id # r[j].id
        /\ \A i \in 1..(Len(r) - 1) : r[i].score >= r[i + 1].score}

\* the ScoredPoint objects of a result list
PointsOf(r) ==
    [i \in 1..Len(r) |->
        [id |-> r[i].id, score |-> r[i].score,
         source |-> points[r[i].id].source, document |-> points[r[i].id].document]]

\* retrieve_multi: one iteration of "for point in results" on the dict best
\* (a sequence in insertion order; an updated key keeps its place)
MergePointMutant(best, point) ==
    IF \E j \in 1..Len(best) : best[j].id = point.id
    THEN [j \in 1..Len(best) |-> IF best[j].id = point.id THEN point ELSE best[j]]
    ELSE Append(best, point)

MergePoint(best, point) ==
    IF \E j \in 1..Len(best) : best[j].id = point.id
    THEN [j \in 1..Len(best) |->
            IF best[j].id = point.id /\ point.score > best[j].score
            THEN point ELSE best[j]]
    ELSE Append(best, point)

RECURSIVE MergeResults(_, _)
MergeResults(best, results) ==
    IF results = <<>> THEN best
    ELSE MergeResults(MergePoint(best, results[1]), Tail(results))

\* retrieve_multi: the loop "for query in queries"
RECURSIVE MergeQueries(_, _)
MergeQueries(best, all_results) ==
    IF all_results = <<>> THEN best
    ELSE MergeQueries(MergeResults(best, all_results[1]), Tail(all_results))

\* scored.sort(key=score, reverse=True): stable, highest score first
RECURSIVE InsertDesc(_, _)
InsertDesc(sorted, point) ==
    IF sorted = <<>> THEN <<point>>
    ELSE IF sorted[1].score >= point.score
         THEN <<sorted[1]>> \o InsertDesc(Tail(sorted), point)
         ELSE <<point>> \o sorted

RECURSIVE SortDescFrom(_, _)
SortDescFrom(sorted, rest) ==
    IF rest = <<>> THEN sorted
    ELSE SortDescFrom(InsertDesc(sorted, rest[1]), Tail(rest))

SortScoredMutant(scored) == scored

SortScored(scored) == SortDescFrom(<<>>, scored)

DEFAULT_EMBEDDING_MODEL == "bge-small"
EmbeddingModels == {DEFAULT_EMBEDDING_MODEL, "minilm"}

\* KnowledgeBase.index_directory once the chunks all_documents of the files
\* are collected: client.add creates the collection or adds to it
IndexDirectory(all_documents) ==
    IF all_documents # <<>>
    THEN /\ points' = points \o all_documents
         /\ collection_exists' = TRUE
         /\ indexed_model' = embedding_model
    ELSE UNCHANGED <<points, collection_exists, indexed_model>>

\* KnowledgeBase.delete_collection
DeleteCollection ==
    IF collection_exists
    THEN /\ collection_exists' = FALSE
         /\ points' = <<>>
    ELSE UNCHANGED <<collection_exists, points>>

\* KnowledgeBase.check_model_mismatch: the other model's name, or "none"
CheckModelMismatch(requested) ==
    IF ~collection_exists THEN "none"
    ELSE IF indexed_model # "none" /\ indexed_model # requested
         THEN indexed_model
         ELSE "none"

\* the next count chunks of the directory
NextDocuments(count) == [j \in 1..count |-> CorpusDoc(Len(points) + j)]

index_directory ==
    /\ kb_pc = "idle"
    /\ \E count \in 0..(MaxPoints - Len(points)) :
          IndexDirectory(NextDocuments(count))
    /\ UNCHANGED <<embedding_model, kb_pc, kb_call>>
    /\ UNCHANGED notKB

delete_collection ==
    /\ kb_pc = "idle"
    /\ DeleteCollection
    /\ UNCHANGED <<embedding_model, indexed_model, kb_pc, kb_call>>
    /\ UNCHANGED notKB

\* retrieve after the query: filter by min_score, format
RetrieveContext(results, max_chars, min_score) ==
    LET kept == SelectSeq(results, LAMBDA p : Passes(p.score, min_score))
    IN IF results = <<>> \/ kept = <<>> THEN <<>>
       ELSE FormatPoints(kept, max_chars)

retrieve ==
    /\ kb_pc = "idle"
    /\ kb_pc' = "returned"
    /\ \E top_k \in TopKSet, max_chars \in MaxCharsSet, min_score \in MinScoreSet :
          IF ~collection_exists
          THEN kb_call' = [op |-> "retrieve", max_chars |-> max_chars,
                           min_score |-> min_score, indexed |-> FALSE,
                           query_calls |-> 0, results |-> <<>>,
                           best |-> <<>>, scored |-> <<>>, out |-> <<>>]
          ELSE \E r \in ResultLists(Len(points), top_k) :
                  LET results == PointsOf(r)
                      kept == SelectSeq(results, LAMBDA p : Passes(p.score, min_score))
                  IN kb_call' = [op |-> "retrieve", max_chars |-> max_chars,
                                 min_score |-> min_score, indexed |-> TRUE,
                                 query_calls |-> 1, results |-> <<results>>,
                                 best |-> <<>>, scored |-> kept,
                                 out |-> RetrieveContext(results, max_chars, min_score)]
    /\ UNCHANGED storeVars
    /\ UNCHANGED notKB

retrieve_multi ==
    /\ kb_pc = "idle"
    /\ kb_pc' = "returned"
    /\ \E top_k_per_query \in TopKSet, max_chars \in MaxCharsSet,
          min_score \in MinScoreSet, nq \in 0..MaxQueries :
          IF ~collection_exists
          THEN kb_call' = [op |-> "retrieve_multi", max_chars |-> max_chars,
                           min_score |-> min_score, indexed |-> FALSE,
                           query_calls |-> 0, results |-> <<>>,
                           best |-> <<>>, scored |-> <<>>, out |-> <<>>]
          ELSE \E rs \in [1..nq -> ResultLists(Len(points), top_k_per_query)] :
                  LET all_results == [q \in 1..nq |-> PointsOf(rs[q])]
                      best == MergeQueries(<<>>, all_results)
                      scored == SortScored(
                                  SelectSeq(best, LAMBDA p : Passes(p.score, min_score)))
                  IN kb_call' = [op |-> "retrieve_multi", max_chars |-> max_chars,
                                 min_score |-> min_score, indexed |-> TRUE,
                                 query_calls |-> nq, results |-> all_results,
                                 best |-> best, scored |-> scored,
                                 out |-> IF scored = <<>> THEN <<>>
                                         ELSE FormatPoints(scored, max_chars)]
    /\ UNCHANGED storeVars
    /\ UNCHANGED notKB

\* the caller takes the context string; the frame is dropped
kb_return ==
    /\ kb_pc = "returned"
    /\ kb_pc' = "idle"
    /\ kb_call' = NoCall
    /\ UNCHANGED storeVars
    /\ UNCHANGED notKB

KBInit ==
    /\ collection_exists = FALSE
    /\ points = <<>>
    /\ embedding_model = DEFAULT_EMBEDDING_MODEL
    /\ indexed_model = "none"
    /\ kb_pc = "idle"
    /\ kb_call = NoCall

KBNext ==
    \/ index_directory
    \/ delete_collection
    \/ retrieve
    \/ retrieve_multi
    \/ kb_return

(***************************************************************************)
(* Properties of the retrieval layer                                       *)
(***************************************************************************)
\* every point some query of the call returned
AllHits == UNION {Range(kb_call.results[q]) : q \in 1..Len(kb_call.results)}

ReturnedIds == {p.id : p \in AllHits}

\* the highest score a point id received over all queries of the call
TopScore(id) ==
    LET scores == {p.score : p \in {h \in AllHits : h.id = id}}
    IN CHOOSE s \in scores : \A t \in scores : t <= s

IdsOf(seq) == {seq[i].id : i \in 1..Len(seq)}

Called(op) == kb_pc = "returned" /\ kb_call.op = op

\* C1: retrieve_multi keeps every point id returned by any query exactly once,
\* with the maximum score that id received over all queries.
C1_BestScoreMerge ==
    Called("retrieve_multi") =>
        /\ \A i, j \in 1..Len(kb_call.best) :
              i # j => kb_call.best[i].id # kb_call.best[j].id
        /\ IdsOf(kb_call.best) = ReturnedIds
        /\ \A i \in 1..Len(kb_call.best) :
              kb_call.best[i].score = TopScore(kb_call.best[i].id)
        /\ \A i, j \in 1..Len(kb_call.out) :
              i # j => kb_call.out[i].id # kb_call.out[j].id

\* a later query returned a point with a lower score than an earlier query did
C1_Witness ==
    /\ Called("retrieve_multi")
    /\ Len(kb_call.results) = 2
    /\ \E p \in Range(kb_call.results[1]), q \in Range(kb_call.results[2]) :
          /\ p.id = q.id
          /\ q.score < p.score
          /\ \E i \in 1..Len(kb_call.best) :
                kb_call.best[i].id = p.id /\ kb_call.best[i].score = p.score

\* C2: no point whose (best) score is below min_score contributes a part to the
\* context, and a point whose (best) score equals min_score passes the filter.
C2_MinScoreFilter ==
    kb_pc = "returned" =>
        /\ \A i \in 1..Len(kb_call.out) :
              TopScore(kb_call.out[i].id) >= kb_call.min_score
        /\ \A i \in 1..Len(kb_call.scored) :
              TopScore(kb_call.scored[i].id) >= kb_call.min_score
        /\ \A id \in ReturnedIds :
              TopScore(id) = kb_call.min_score => id \in IdsOf(kb_call.scored)

\* a point at exactly min_score is in the context while another one was below
C2_Witness ==
    /\ kb_pc = "returned"
    /\ \E i \in 1..Len(kb_call.out) :
          TopScore(kb_call.out[i].id) = kb_call.min_score
    /\ \E id \in ReturnedIds : TopScore(id) < kb_call.min_score

NothingRelevant ==
    \/ ~kb_call.indexed
    \/ AllHits = {}
    \/ \A id \in ReturnedIds : TopScore(id) < kb_call.min_score

\* C3 as stated: the context is empty exactly when the collection is not
\* indexed (no query issued then), no point was returned, or none reaches
\* min_score.
C3_EmptyOnlyWhenNothingRelevant ==
    kb_pc = "returned" =>
        /\ (kb_call.out = <<>>) <=> NothingRelevant
        /\ ~kb_call.indexed => kb_call.query_calls = 0

\* C3 amended: the context is also empty when max_chars <= 100 and the first
\* point that is formatted does not fit into max_chars.
C3_EmptyCases ==
    kb_pc = "returned" =>
        /\ (kb_call.out = <<>>) <=>
              \/ NothingRelevant
              \/ /\ kb_call.max_chars <= MinRemaining
                 /\ kb_call.scored # <<>>
                 /\ PartLen(kb_call.scored[1]) > kb_call.max_chars
        /\ ~kb_call.indexed => kb_call.query_calls = 0
        /\ kb_call.indexed => kb_call.query_calls = Len(kb_call.results)

\* a passing point exists and the context is empty all the same
C3_Witness ==
    /\ kb_pc = "returned"
    /\ ~NothingRelevant
    /\ kb_call.out = <<>>

\* C4: the context string is at most max_chars characters long.
C4_LengthAtMostMaxChars ==
    kb_pc = "returned" => JoinLen(kb_call.out) <= kb_call.max_chars

\* C5: retrieve_multi formats the passing points by non-increasing best score;
\* a point dropped by the cut never has a higher best score than a kept one.
C5_BestFirst ==
    Called("retrieve_multi") =>
        /\ IdsOf(kb_call.scored) =
              {id \in ReturnedIds : TopScore(id) >= kb_call.min_score}
        /\ \A i \in 1..(Len(kb_call.scored) - 1) :
              kb_call.scored[i].score >= kb_call.scored[i + 1].score
        /\ \A i \in 1..Len(kb_call.out) : kb_call.out[i].id = kb_call.scored[i].id
        /\ \A kept \in IdsOf(kb_call.out) :
              \A dropped \in IdsOf(kb_call.scored) \ IdsOf(kb_call.out) :
                 TopScore(dropped) <= TopScore(kept)

\* the merge order was not the score order, and the cut dropped a point
C5_Witness ==
    /\ Called("retrieve_multi")
    /\ \E i \in 1..(Len(kb_call.best) - 1) :
          kb_call.best[i].score < kb_call.best[i + 1].score
    /\ kb_call.out # <<>>
    /\ IdsOf(kb_call.scored) \ IdsOf(kb_call.out) # {}

(***************************************************************************)
(* core/llm.py, llm.py : call_llm                                          *)
(***************************************************************************)
Contents == {"c1", "c2"}
Exceptions == {"e1", "e2"}

NoResult == [kind |-> "none"]

\* "if attempt < retries": another attempt follows the failed one
RetryAllowedMutant(a, r) == a <= r

RetryAllowed(a, r) == a < r

\* "for attempt in range(retries + 1)": is a still in the range
InRange(a, r) == a < r + 1

call_llm ==
    /\ llm_pc = "idle"
    /\ \E r \in -1..MaxRetries :
          /\ retries' = r
          /\ IF InRange(0, r)
             THEN llm_pc' = "attempt" /\ llm_result' = NoResult
             ELSE llm_pc' = "returned" /\ llm_result' = [kind |-> "return", content |-> "None"]
    /\ attempt' = 0
    /\ llm_trace' = <<>>
    /\ UNCHANGED notLLM

\* litellm.completion / ollama.chat answers
llm_attempt_ok ==
    /\ llm_pc = "attempt"
    /\ \E c \in Contents :
          /\ llm_trace' = Append(llm_trace, [ev |-> "call", ok |-> TRUE, val |-> c])
          /\ llm_result' = [kind |-> "return", content |-> c]
    /\ llm_pc' = "returned"
    /\ UNCHANGED <<retries, attempt>>
    /\ UNCHANGED notLLM

\* litellm.completion / ollama.chat raises
llm_attempt_fail ==
    /\ llm_pc = "attempt"
    /\ \E e \in Exceptions :
          /\ llm_trace' = Append(llm_trace, [ev |-> "call", ok |-> FALSE, val |-> e])
          /\ IF RetryAllowed(attempt, retries)
             THEN llm_pc' = "sleeping" /\ llm_result' = llm_result
             ELSE llm_pc' = "raised" /\ llm_result' = [kind |-> "raise", exc |-> e]
    /\ UNCHANGED <<retries, attempt>>
    /\ UNCHANGED notLLM

\* time.sleep(2); continue
llm_sleep ==
    /\ llm_pc = "sleeping"
    /\ llm_trace' = Append(llm_trace, [ev |-> "sleep"])
    /\ attempt' = attempt + 1
    /\ IF InRange(attempt + 1, retries)
       THEN llm_pc' = "attempt" /\ llm_result' = llm_result
       ELSE llm_pc' = "returned" /\ llm_result' = [kind |-> "return", content |-> "None"]
    /\ UNCHANGED retries
    /\ UNCHANGED notLLM

\* the caller takes the result
llm_done ==
    /\ llm_pc \in {"returned", "raised"}
    /\ llm_pc' = "idle"
    /\ retries' = 0
    /\ attempt' = 0
    /\ llm_trace' = <<>>
    /\ llm_result' = NoResult
    /\ UNCHANGED notLLM

LLMInit ==
    /\ llm_pc = "idle"
    /\ retries = 0
    /\ attempt = 0
    /\ llm_trace = <<>>
    /\ llm_result = NoResult

LLMNext ==
    \/ call_llm
    \/ llm_attempt_ok
    \/ llm_attempt_fail
    \/ llm_sleep
    \/ llm_done

(***************************************************************************)
(* Properties of call_llm                                                  *)
(***************************************************************************)
IsCall(e) == e.ev = "call"

NumCalls == Len(SelectSeq(llm_trace, IsCall))

\* C6: with retries = r >= 0 the provider is invoked at most r+1 times; the
\* first successful attempt ends the call and its content is returned; the
\* call raises only after r+1 failed attempts, with the last attempt's
\* exception; exactly one sleep separates two consecutive attempts.
C6_RetryDiscipline ==
    (llm_pc # "idle" /\ retries >= 0) =>
        /\ NumCalls <= retries + 1
        /\ \A i \in 1..Len(llm_trace) : IsCall(llm_trace[i]) <=> (i % 2 = 1)
        /\ \A i \in 1..Len(llm_trace) :
              (IsCall(llm_trace[i]) /\ llm_trace[i].ok) =>
                  /\ i = Len(llm_trace)
                  /\ llm_pc = "returned"
                  /\ llm_result = [kind |-> "return", content |-> llm_trace[i].val]
        /\ llm_pc = "returned" =>
              /\ llm_trace # <<>>
              /\ IsCall(llm_trace[Len(llm_trace)])
              /\ llm_trace[Len(llm_trace)].ok
        /\ llm_pc = "raised" =>
              /\ NumCalls = retries + 1
              /\ \A i \in 1..Len(llm_trace) : IsCall(llm_trace[i]) => ~llm_trace[i].ok
              /\ IsCall(llm_trace[Len(llm_trace)])
              /\ llm_result = [kind |-> "raise", exc |-> llm_trace[Len(llm_trace)].val]
        /\ llm_pc \in {"attempt", "sleeping"} => llm_result = NoResult

\* three attempts failed with different exceptions and the last one is raised
C6_Witness ==
    /\ llm_pc = "raised"
    /\ retries = 2
    /\ llm_trace[1].val = "e1"
    /\ llm_result = [kind |-> "raise", exc |-> "e2"]

(***************************************************************************)
(* core/chunker.py, core/knowledge_base.py : word-based chunking           *)
(*                                                                         *)
(* A text is a sequence of tokens: a space, a newline, a letter "w", or    *)
(* "W", a block of BlockWords words separated by single spaces.            *)
(***************************************************************************)
CHUNK_TARGET_WORDS == 500
BlockWords == 300

Alphabet == {" ", "\n", "w", "W"}
ChunkWordsSet == {1, 2, CHUNK_TARGET_WORDS}
SourceSet == {"a.txt", "b.md"}

IsSpace(t) == t \in {" ", "\n"}

\* str.split(sep) for a non-empty separator
RECURSIVE SplitFrom(_, _, _, _)
SplitFrom(text, sep, cur, acc) ==
    IF text = <<>> THEN Append(acc, cur)
    ELSE IF Len(text) >= Len(sep) /\ SubSeq(text, 1, Len(sep)) = sep
         THEN SplitFrom(SubSeq(text, Len(sep) + 1, Len(text)), sep, <<>>, Append(acc, cur))
         ELSE SplitFrom(Tail(text), sep, Append(cur, Head(text)), acc)

Split(text, sep) == SplitFrom(text, sep, <<>>, <<>>)

\* str.strip()
RECURSIVE LStrip(_)
LStrip(p) == IF p # <<>> /\ IsSpace(Head(p)) THEN LStrip(Tail(p)) ELSE p

RECURSIVE RStrip(_)
RStrip(p) ==
    IF p # <<>> /\ IsSpace(p[Len(p)]) THEN RStrip(SubSeq(p, 1, Len(p) - 1)) ELSE p

Strip(p) == RStrip(LStrip(p))

\* len(para.split()): adjacent letters and blocks run into one word
RECURSIVE WordCountFrom(_, _)
WordCountFrom(p, in_word) ==
    IF p = <<>> THEN 0
    ELSE IF IsSpace(Head(p)) THEN WordCountFrom(Tail(p), FALSE)
    ELSE (IF Head(p) = "W" THEN BlockWords ELSE 1) - (IF in_word THEN 1 ELSE 0)
         + WordCountFrom(Tail(p), TRUE)

WordCount(p) == WordCountFrom(p, FALSE)

\* [p.strip() for p in pieces if p.strip()]
StrippedNonBlank(pieces) ==
    LET stripped == [i \in 1..Len(pieces) |-> Strip(pieces[i])]
    IN SelectSeq(stripped, LAMBDA p : p # <<>>)

\* the paragraphs of a text: split on blank lines, else on newlines
Paragraphs(text) ==
    LET by_blank == StrippedNonBlank(Split(text, <<"\n", "\n">>))
    IN IF by_blank # <<>> THEN by_blank
       ELSE StrippedNonBlank(Split(text, <<"\n">>))

\* sep.join(parts)
RECURSIVE Join(_, _)
Join(parts, sep) ==
    IF parts = <<>> THEN <<>>
    ELSE IF Len(parts) = 1 THEN parts[1]
    ELSE parts[1] \o sep \o Join(Tail(parts), sep)

\* "\n\n".join(current_parts)
ChunkBodyMutant(current_parts) == Join(current_parts, <<"\n">>)

ChunkBody(current_parts) == Join(current_parts, <<"\n", "\n">>)

\* chunk_idx += 1
NextChunkIdxMutant(chunk_idx) == chunk_idx

NextChunkIdx(chunk_idx) == chunk_idx + 1

\* current_words + para_words > chunk_words
ExceedsTargetMutant(current_words, para_words, chunk_words) ==
    current_words + para_words >= chunk_words

ExceedsTarget(current_words, para_words, chunk_words) ==
    current_words + para_words > chunk_words

\* current_words + para_words > chunk_words and current_parts
ClosesChunkMutant(current_words, para_words, chunk_words, current_parts) ==
    ExceedsTarget(current_words, para_words, chunk_words)

ClosesChunk(current_words, para_words, chunk_words, current_parts) ==
    ExceedsTarget(current_words, para_words, chunk_words) /\ current_parts # <<>>

\* one iteration of "for para in paragraphs"
AddParagraph(st, para, chunk_words) ==
    LET para_words == WordCount(para)
        flushed ==
            IF ClosesChunk(st.current_words, para_words, chunk_words, st.current_parts)
            THEN [chunks |-> Append(st.chunks, [text |-> ChunkBody(st.current_parts),
                                                chunk_index |-> st.chunk_idx]),
                  current_parts |-> <<>>,
                  current_words |-> 0,
                  chunk_idx |-> NextChunkIdx(st.chunk_idx)]
            ELSE st
    IN [flushed EXCEPT !.current_parts = Append(@, para),
                       !.current_words = @ + para_words]

RECURSIVE ChunkLoop(_, _, _)
ChunkLoop(st, paragraphs, chunk_words) ==
    IF paragraphs = <<>> THEN st
    ELSE ChunkLoop(AddParagraph(st, paragraphs[1], chunk_words), Tail(paragraphs),
                   chunk_words)

\* chunk_text(text, chunk_words)
ChunkText(text, chunk_words) ==
    LET paragraphs == Paragraphs(text)
        st == ChunkLoop([chunks |-> <<>>, current_parts |-> <<>>, current_words |-> 0,
                         chunk_idx |-> 0], paragraphs, chunk_words)
    IN IF paragraphs = <<>> THEN <<>>
       ELSE IF st.current_parts # <<>>
            THEN Append(st.chunks, [text |-> ChunkBody(st.current_parts),
                                    chunk_index |-> st.chunk_idx])
            ELSE st.chunks

\* knowledge_base._chunk_text(text, source): the same loop with the fixed
\* target, every chunk carrying the source
KBChunkText(text, source) ==
    LET plain == ChunkText(text, CHUNK_TARGET_WORDS)
    IN [i \in 1..Len(plain) |->
           [text |-> plain[i].text, source |-> source,
            chunk_index |-> plain[i].chunk_index]]

NoChunkCall == [op |-> "none"]

chunk_text ==
    /\ ch_pc = "idle"
    /\ ch_pc' = "returned"
    /\ \E text \in SeqsUpTo(Alphabet, MaxTextLen), chunk_words \in ChunkWordsSet :
          ch_call' = [op |-> "chunk_text", text |-> text, chunk_words |-> chunk_words,
                      chunks |-> ChunkText(text, chunk_words)]
    /\ UNCHANGED notChunk

kb_chunk_text ==
    /\ ch_pc = "idle"
    /\ ch_pc' = "returned"
    /\ \E text \in SeqsUpTo(Alphabet, MaxTextLen), source \in SourceSet :
          ch_call' = [op |-> "_chunk_text", text |-> text, source |-> source,
                      chunks |-> KBChunkText(text, source)]
    /\ UNCHANGED notChunk

(***************************************************************************)
(* core/chunker.py, chunker.py : chunk_transcript                          *)
(***************************************************************************)
EndSet == {20, 60, 70, 130}
ChunkMinutesSet == {1, 2}
SecondsPerMinute == 60

\* chunk_start = seg["end"] after a chunk is closed
NextChunkStartMutant(chunk_start, seg, chunk_seconds) == chunk_start + chunk_seconds

NextChunkStart(chunk_start, seg, chunk_seconds) == seg.end

\* " ".join(s["text"] for s in segs): the texts in order
SegTexts(segs) == [i \in 1..Len(segs) |-> segs[i].text]

\* seg["end"] - chunk_start >= chunk_seconds
SpanReachedMutant(seg, chunk_start, chunk_seconds) ==
    seg.end - chunk_start > chunk_seconds

SpanReached(seg, chunk_start, chunk_seconds) ==
    seg.end - chunk_start >= chunk_seconds

\* one iteration of "for seg in segments"
AddSegment(st, seg, chunk_seconds) ==
    LET current == Append(st.current_chunk_segments, seg)
    IN IF SpanReached(seg, st.chunk_start, chunk_seconds)
       THEN [chunks |-> Append(st.chunks,
                               [start_time |-> st.chunk_start, end_time |-> seg.end,
                                text |-> SegTexts(current), segments |-> current]),
             chunk_start |-> NextChunkStart(st.chunk_start, seg, chunk_seconds),
             current_chunk_segments |-> <<>>]
       ELSE [st EXCEPT !.current_chunk_segments = current]

RECURSIVE SegmentLoop(_, _, _)
SegmentLoop(st, segments, chunk_seconds) ==
    IF segments = <<>> THEN st
    ELSE SegmentLoop(AddSegment(st, segments[1], chunk_seconds), Tail(segments),
                     chunk_seconds)

\* chunk_transcript(segments, chunk_minutes)
ChunkTranscript(segments, chunk_minutes) ==
    LET chunk_seconds == chunk_minutes * SecondsPerMinute
        st == SegmentLoop([chunks |-> <<>>, current_chunk_segments |-> <<>>,
                           chunk_start |-> 0], segments, chunk_seconds)
        rest == st.current_chunk_segments
    IN IF rest # <<>>
       THEN Append(st.chunks,
                   [start_time |-> st.chunk_start, end_time |-> rest[Len(rest)].end,
                    text |-> SegTexts(rest), segments |-> rest])
       ELSE st.chunks

\* the segments of a transcript: segment i says text i and ends at ends[i]
SegmentsOf(ends) == [i \in 1..Len(ends) |-> [end |-> ends[i], text |-> i]]

chunk_transcript ==
    /\ ch_pc = "idle"
    /\ ch_pc' = "returned"
    /\ \E ends \in SeqsUpTo(EndSet, MaxSegments), chunk_minutes \in ChunkMinutesSet :
          ch_call' = [op |-> "chunk_transcript", segments |-> SegmentsOf(ends),
                      chunk_minutes |-> chunk_minutes,
                      chunks |-> ChunkTranscript(SegmentsOf(ends), chunk_minutes)]
    /\ UNCHANGED notChunk

\* the caller takes the chunks
ch_return ==
    /\ ch_pc = "returned"
    /\ ch_pc' = "idle"
    /\ ch_call' = NoChunkCall
    /\ UNCHANGED notChunk

ChunkInit ==
    /\ ch_pc = "idle"
    /\ ch_call = NoChunkCall

ChunkNext ==
    \/ chunk_text
    \/ kb_chunk_text
    \/ chunk_transcript
    \/ ch_return

(***************************************************************************)
(* Properties of the chunkers                                              *)
(***************************************************************************)
RECURSIVE Flatten(_)
Flatten(seqs) == IF seqs = <<>> THEN <<>> ELSE seqs[1] \o Flatten(Tail(seqs))

Chunked(op) == ch_pc = "returned" /\ ch_call.op = op

\* the paragraphs a reader finds in a chunk: its text cut at the blank lines
ChunkParagraphs(chunk) == Split(chunk.text, <<"\n", "\n">>)

\* C7: the chunks' texts, cut at their blank lines and taken in order, are
\* exactly the non-blank stripped paragraphs of the input: no paragraph is
\* split, dropped, duplicated or reordered.
C7_ParagraphsPreserved ==
    (Chunked("chunk_text") \/ Chunked("_chunk_text")) =>
        /\ Flatten([i \in 1..Len(ch_call.chunks) |-> ChunkParagraphs(ch_call.chunks[i])])
              = StrippedNonBlank(Split(ch_call.text, <<"\n", "\n">>))
        /\ Join([i \in 1..Len(ch_call.chunks) |-> ch_call.chunks[i].text], <<"\n", "\n">>)
              = Join(StrippedNonBlank(Split(ch_call.text, <<"\n", "\n">>)), <<"\n", "\n">>)

\* three paragraphs, the first two in one chunk and the third in another
C7_Witness ==
    /\ Chunked("chunk_text")
    /\ Len(StrippedNonBlank(Split(ch_call.text, <<"\n", "\n">>))) = 3
    /\ Len(ch_call.chunks) = 2
    /\ Len(ChunkParagraphs(ch_call.chunks[1])) = 2

\* C8: chunk_transcript partitions the segments in input order into non-empty
\* chunks; the first chunk starts at 0, every later chunk starts where the
\* previous one ended, and a chunk ends where its last segment ends.
C8_TranscriptPartition ==
    Chunked("chunk_transcript") =>
        LET cs == ch_call.chunks IN
        /\ Flatten([i \in 1..Len(cs) |-> cs[i].segments]) = ch_call.segments
        /\ \A i \in 1..Len(cs) :
              /\ cs[i].segments # <<>>
              /\ cs[i].end_time = cs[i].segments[Len(cs[i].segments)].end
              /\ cs[i].start_time = IF i = 1 THEN 0 ELSE cs[i - 1].end_time

\* a transcript cut into three chunks, the last one partial
C8_Witness ==
    /\ Chunked("chunk_transcript")
    /\ Len(ch_call.segments) = 4
    /\ Len(ch_call.chunks) = 3
    /\ ch_call.chunks[3].end_time - ch_call.chunks[3].start_time
          < ch_call.chunk_minutes * SecondsPerMinute

\* C16: the chunks of chunk_text and _chunk_text are numbered 0, 1, ..., n-1
\* in list order, and every chunk of _chunk_text carries the source name of
\* the call.
C16_ChunkIndexAndSource ==
    /\ (Chunked("chunk_text") \/ Chunked("_chunk_text")) =>
          \A i \in 1..Len(ch_call.chunks) : ch_call.chunks[i].chunk_index = i - 1
    /\ Chunked("_chunk_text") =>
          \A i \in 1..Len(ch_call.chunks) : ch_call.chunks[i].source = ch_call.source

\* _chunk_text returned two chunks, numbered 0 and 1, with the call's source
C16_Witness ==
    /\ Chunked("_chunk_text")
    /\ Len(ch_call.chunks) = 2
    /\ ch_call.chunks[2].chunk_index = 1
    /\ ch_call.chunks[2].source = ch_call.source

\* the word target of a call
TargetWords == IF ch_call.op = "chunk_text" THEN ch_call.chunk_words ELSE CHUNK_TARGET_WORDS

\* the text has a character that is not white space
HasNonBlank(text) == \E i \in 1..Len(text) : ~IsSpace(text[i])

\* C17: chunk_text and _chunk_text return the empty list exactly for a text
\* that is empty or white space only; for any other text no chunk has an
\* empty text, and there is exactly one chunk when the words of the text do
\* not exceed the target.
C17_EmptyAndSingleChunk ==
    (Chunked("chunk_text") \/ Chunked("_chunk_text")) =>
        /\ (ch_call.chunks = <<>>) <=> ~HasNonBlank(ch_call.text)
        /\ \A i \in 1..Len(ch_call.chunks) : ch_call.chunks[i].text # <<>>
        /\ (HasNonBlank(ch_call.text) /\ WordCount(ch_call.text) <= TargetWords)
              => Len(ch_call.chunks) = 1

\* a first paragraph already over the target: it is still one non-empty chunk,
\* and the second paragraph is another
C17_Witness ==
    /\ Chunked("chunk_text")
    /\ ch_call.text = <<"W", "\n", "\n", "w">>
    /\ WordCount(<<"W">>) > ch_call.chunk_words
    /\ Len(ch_call.chunks) = 2
    /\ ch_call.chunks[1].text = <<"W">>

\* two short paragraphs within the target come back as one chunk
C17_OneChunk ==
    /\ Chunked("_chunk_text")
    /\ ch_call.text = <<"w", "\n", "\n", "w">>
    /\ Len(ch_call.chunks) = 1

\* C22: a chunk of more than one paragraph has at most the target's words, so
\* a chunk over the target is a single paragraph; and a chunk was closed only
\* because the next paragraph would have taken it over the target.
C22_GreedySoftTarget ==
    (Chunked("chunk_text") \/ Chunked("_chunk_text")) =>
        LET cs == ch_call.chunks IN
        /\ \A i \in 1..Len(cs) :
              \/ WordCount(cs[i].text) <= TargetWords
              \/ /\ Len(ChunkParagraphs(cs[i])) = 1
                 /\ WordCount(ChunkParagraphs(cs[i])[1]) > TargetWords
        /\ \A i \in 1..(Len(cs) - 1) :
              /\ WordCount(cs[i].text) + WordCount(ChunkParagraphs(cs[i + 1])[1]) > TargetWords
              /\ WordCount(cs[i].text) + WordCount(cs[i + 1].text) > TargetWords

\* two paragraphs fill the first chunk within the target and the third would
\* exceed it
C22_Witness ==
    /\ Chunked("_chunk_text")
    /\ Len(ch_call.chunks) = 2
    /\ Len(ChunkParagraphs(ch_call.chunks[1])) = 2
    /\ WordCount(ch_call.chunks[1].text) <= CHUNK_TARGET_WORDS
    /\ WordCount(ch_call.chunks[1].text) + WordCount(ch_call.chunks[2].text)
          > CHUNK_TARGET_WORDS

\* the segments' end times do not decrease
NonDecreasingEnds(segments) ==
    \A i \in 1..(Len(segments) - 1) : segments[i].end <= segments[i + 1].end

\* C23: for segments with non-decreasing end times every chunk of
\* chunk_transcript but the last spans at least chunk_minutes * 60 seconds
\* and would span less without its last segment.
C23_ChunkSpans ==
    (Chunked("chunk_transcript") /\ NonDecreasingEnds(ch_call.segments)) =>
        LET cs == ch_call.chunks
            chunk_seconds == ch_call.chunk_minutes * SecondsPerMinute
        IN \A i \in 1..(Len(cs) - 1) :
              /\ cs[i].end_time - cs[i].start_time >= chunk_seconds
              /\ \A j \in 1..(Len(cs[i].segments) - 1) :
                    cs[i].segments[j].end - cs[i].start_time < chunk_seconds

\* a chunk of two segments closed exactly at the threshold, followed by a
\* shorter last chunk
C23_Witness ==
    /\ Chunked("chunk_transcript")
    /\ NonDecreasingEnds(ch_call.segments)
    /\ Len(ch_call.chunks) = 2
    /\ Len(ch_call.chunks[1].segments) = 2
    /\ ch_call.chunks[1].end_time - ch_call.chunks[1].start_time
          = ch_call.chunk_minutes * SecondsPerMinute
    /\ ch_call.chunks[2].end_time - ch_call.chunks[2].start_time
          < ch_call.chunk_minutes * SecondsPerMinute

(***************************************************************************)
(* main.py : run_summarizer; cli/summarizer.py : _summarize_chunks         *)
(*                                                                         *)
(* The answers of the language model are values that name what they were   *)
(* computed from; the calls the run makes are logged in run_trace.         *)
(***************************************************************************)
\* the end times of the segments transcribe may return
Transcripts == {<<>>, <<50>>, <<60, 120>>, <<30, 60, 90>>, <<60, 120, 180>>}
\* the chunk_minutes a run may be given
RunChunkMinutes == {1, 2}
\* the texts extract_text / load_input_text may return: blank, one short
\* paragraph, two and three long paragraphs
RunTexts == {<<" ">>, <<"w">>, <<"W", "\n", "\n", "W">>,
             <<"W", "\n", "\n", "W", "\n", "\n", "W">>}
\* min_score = 0.4 on the scale of ScoreSet (1 = 0.2, 2 = 0.4, 3 = 0.6)
DEFAULT_MIN_SCORE == 2
ENHANCE_TOP_K == 5
ENHANCE_MAX_CHARS == 6000

NoValue == [kind |-> "none"]

\* summarize_chunk(chunk, i, ...) answers
Summary(i) == [kind |-> "chunk_summary", chunk |-> i]

\* consolidate_summaries(chunk_summaries, ...) answers
Consolidated(summaries) == [kind |-> "consolidated", of |-> summaries]

\* enhance_with_kb(final_summary, kb_context, ...) answers
Enhanced(summary) == [kind |-> "enhanced", base |-> summary]

Log(event) == run_trace' = Append(run_trace, event)

\* where a run goes once its knowledge base is settled
NextStage ==
    CASE run_args.prog = "main" -> "transcribe"
      [] run_args.prog = "main_podcast" -> "generate"
      [] run_args.prog = "cli" -> "cli_load"
      [] run_args.prog = "cli_podcast" -> "cli_generate"

\* "if kb: kb.close()" followed by sys.exit(1)
CloseAndExitMutant ==
    /\ kb_closes' = IF kb_ref THEN kb_closes + 1 ELSE kb_closes
    /\ run_pc' = run_pc
    /\ exit_status' = 1

CloseAndExit ==
    /\ kb_closes' = IF kb_ref THEN kb_closes + 1 ELSE kb_closes
    /\ run_pc' = "exited"
    /\ exit_status' = 1

\* "for i, chunk in enumerate(chunks)" has run out
LoopDoneMutant(done, total) == done >= total - 1

LoopDone(done, total) == done >= total

\* "if kb_context:"
ShouldEnhanceMutant(kb_context) == TRUE

ShouldEnhance(kb_context) == kb_context # <<>>

\* main.run_summarizer up to the knowledge base: the input source is checked,
\* a YouTube source downloaded, the audio file and the model validated
main_run_summarizer ==
    /\ run_pc = "idle"
    /\ \E source \in {"audio", "youtube", "both", "neither"},
          kb_dir \in BOOLEAN, kb_rebuild \in BOOLEAN, model \in EmbeddingModels,
          checks_pass \in BOOLEAN :
          /\ (~kb_dir => (~kb_rebuild /\ model = DEFAULT_EMBEDDING_MODEL))
          /\ run_args' = [prog |-> "main", source |-> source, kb_dir |-> kb_dir,
                          kb_rebuild |-> kb_rebuild, embedding_model |-> model]
          /\ IF source \in {"both", "neither"} \/ ~checks_pass
             THEN run_pc' = "exited" /\ exit_status' = 1
             ELSE run_pc' = "load_kb" /\ exit_status' = "none"
    /\ Log([ev |-> "start"])
    /\ UNCHANGED <<kb_ref, kb_closes, chunks, chunk_summaries, final_summary, written>>
    /\ UNCHANGED storeVars
    /\ UNCHANGED pending
    /\ UNCHANGED kb_opens
    /\ UNCHANGED notRun

\* "Step 3: Load knowledge base": construct, check the model, rebuild
main_load_kb ==
    /\ run_pc = "load_kb"
    /\ IF run_args.kb_dir
       THEN /\ embedding_model' = run_args.embedding_model
            /\ kb_ref' = TRUE
            /\ kb_opens' = kb_opens + 1
            /\ LET mismatched_model == CheckModelMismatch(run_args.embedding_model)
               IN IF mismatched_model # "none"
                  THEN /\ kb_closes' = kb_closes + 1
                       /\ run_pc' = "exited"
                       /\ exit_status' = 1
                       /\ Log([ev |-> "mismatch"])
                       /\ UNCHANGED <<collection_exists, points>>
                  ELSE /\ IF run_args.kb_rebuild
                          THEN DeleteCollection
                          ELSE UNCHANGED <<collection_exists, points>>
                       /\ run_pc' = "index_kb"
                       /\ Log([ev |-> "kb_open"])
                       /\ UNCHANGED <<kb_closes, exit_status>>
            /\ UNCHANGED indexed_model
       ELSE /\ run_pc' = NextStage
            /\ UNCHANGED <<kb_ref, kb_closes, kb_opens, exit_status, run_trace>>
            /\ UNCHANGED storeVars
    /\ UNCHANGED <<run_args, chunks, chunk_summaries, final_summary, written>>
    /\ UNCHANGED pending
    /\ UNCHANGED notRun

\* "Index knowledge base (if needed)": the cached index is used
main_index_cached ==
    /\ run_pc = "index_kb"
    /\ collection_exists /\ ~run_args.kb_rebuild
    /\ run_pc' = NextStage
    /\ UNCHANGED <<run_args, kb_ref, kb_closes, chunks, chunk_summaries, final_summary,
                   written, run_trace, exit_status>>
    /\ UNCHANGED storeVars
    /\ UNCHANGED pending
    /\ UNCHANGED kb_opens
    /\ UNCHANGED notRun

\* "Index knowledge base (if needed)": index_directory runs
main_index_kb ==
    /\ run_pc = "index_kb"
    /\ ~(collection_exists /\ ~run_args.kb_rebuild)
    /\ \/ \* index_directory raises
          /\ CloseAndExit
          /\ Log([ev |-> "index_failed"])
          /\ UNCHANGED <<kb_ref, storeVars>>
       \/ \* no file with text: files_loaded == 0
          /\ IndexDirectory(<<>>)
          /\ kb_closes' = kb_closes + 1
          /\ kb_ref' = FALSE
          /\ run_pc' = NextStage
          /\ Log([ev |-> "index", files |-> 0])
          /\ UNCHANGED <<embedding_model, exit_status>>
       \/ \E count \in 1..(MaxPoints - Len(points)) :
             /\ IndexDirectory(NextDocuments(count))
             /\ run_pc' = NextStage
             /\ Log([ev |-> "index", files |-> 1])
             /\ UNCHANGED <<embedding_model, kb_ref, kb_closes, exit_status>>
    /\ UNCHANGED <<run_args, chunks, chunk_summaries, final_summary, written>>
    /\ UNCHANGED pending
    /\ UNCHANGED kb_opens
    /\ UNCHANGED notRun

\* transcribe, the "no speech" check and chunk_transcript
main_transcribe ==
    /\ run_pc = "transcribe"
    /\ \/ \* transcribe raises
          /\ CloseAndExit
          /\ Log([ev |-> "transcribe", ok |-> FALSE])
          /\ UNCHANGED chunks
       \/ \E ends \in Transcripts, chunk_minutes \in RunChunkMinutes :
             IF ends = <<>>
             THEN /\ CloseAndExit
                  /\ Log([ev |-> "transcribe", ok |-> TRUE])
                  /\ UNCHANGED chunks
             ELSE /\ chunks' = ChunkTranscript(SegmentsOf(ends), chunk_minutes)
                  /\ run_pc' = "summarize"
                  /\ run_trace' = run_trace \o <<[ev |-> "transcribe", ok |-> TRUE],
                                                 [ev |-> "chunk"]>>
                  /\ UNCHANGED <<kb_closes, exit_status>>
    /\ UNCHANGED <<run_args, kb_ref, chunk_summaries, final_summary, written>>
    /\ UNCHANGED storeVars
    /\ UNCHANGED pending
    /\ UNCHANGED kb_opens
    /\ UNCHANGED notRun

\* one iteration of the loop over the chunks: summarize_chunk answers or raises
main_summarize_chunk ==
    /\ run_pc = "summarize"
    /\ ~LoopDone(Len(chunk_summaries), Len(chunks))
    /\ LET i == Len(chunk_summaries) + 1 IN
       \/ /\ chunk_summaries' = Append(chunk_summaries, Summary(i))
          /\ Log([ev |-> "summarize", chunk |-> i, ok |-> TRUE])
          /\ UNCHANGED <<run_pc, kb_closes, exit_status>>
       \/ /\ CloseAndExit
          /\ Log([ev |-> "summarize", chunk |-> i, ok |-> FALSE])
          /\ UNCHANGED chunk_summaries
    /\ UNCHANGED <<run_args, kb_ref, chunks, final_summary, written>>
    /\ UNCHANGED storeVars
    /\ UNCHANGED pending
    /\ UNCHANGED kb_opens
    /\ UNCHANGED notRun

\* after the loop: consolidate_summaries answers or raises
main_consolidate ==
    /\ run_pc = "summarize"
    /\ LoopDone(Len(chunk_summaries), Len(chunks))
    /\ \/ /\ final_summary' = Consolidated(chunk_summaries)
          /\ run_pc' = "enhance"
          /\ Log([ev |-> "consolidate", args |-> chunk_summaries, ok |-> TRUE])
          /\ UNCHANGED <<kb_closes, exit_status>>
       \/ /\ CloseAndExit
          /\ Log([ev |-> "consolidate", args |-> chunk_summaries, ok |-> FALSE])
          /\ UNCHANGED final_summary
    /\ UNCHANGED <<run_args, kb_ref, chunks, chunk_summaries, written>>
    /\ UNCHANGED storeVars
    /\ UNCHANGED pending
    /\ UNCHANGED kb_opens
    /\ UNCHANGED notRun

\* "Enhancement pass": kb.retrieve on the summary, then enhance_with_kb
main_enhance ==
    /\ run_pc = "enhance"
    /\ IF kb_ref
       THEN \E r \in (IF collection_exists
                      THEN ResultLists(Len(points), ENHANCE_TOP_K) ELSE {<<>>}) :
               LET kb_context == IF collection_exists
                                 THEN RetrieveContext(PointsOf(r), ENHANCE_MAX_CHARS,
                                                      DEFAULT_MIN_SCORE)
                                 ELSE <<>>
                   asked == [ev |-> "retrieve", query |-> final_summary,
                             found |-> kb_context # <<>>]
               IN IF ShouldEnhance(kb_context)
                  THEN \/ /\ final_summary' = Enhanced(final_summary)
                          /\ run_pc' = "score"
                          /\ run_trace' = run_trace \o
                                <<asked, [ev |-> "enhance", base |-> final_summary,
                                          ok |-> TRUE]>>
                          /\ UNCHANGED <<kb_closes, exit_status>>
                       \/ /\ CloseAndExit
                          /\ run_trace' = run_trace \o
                                <<asked, [ev |-> "enhance", base |-> final_summary,
                                          ok |-> FALSE]>>
                          /\ UNCHANGED final_summary
                  ELSE /\ run_pc' = "score"
                       /\ Log(asked)
                       /\ UNCHANGED <<final_summary, kb_closes, exit_status>>
       ELSE /\ run_pc' = "score"
            /\ UNCHANGED <<final_summary, kb_closes, exit_status, run_trace>>
    /\ UNCHANGED <<run_args, kb_ref, chunks, chunk_summaries, written>>
    /\ UNCHANGED storeVars
    /\ UNCHANGED pending
    /\ UNCHANGED kb_opens
    /\ UNCHANGED notRun

\* generate_watch_score (YouTube only), then generate_remarks
main_score_remarks ==
    /\ run_pc = "score"
    /\ \/ /\ run_args.source = "youtube"
          /\ CloseAndExit
          /\ Log([ev |-> "score", ok |-> FALSE])
       \/ /\ CloseAndExit
          /\ Log([ev |-> "remarks", ok |-> FALSE])
       \/ /\ run_pc' = "write"
          /\ Log([ev |-> "remarks", ok |-> TRUE])
          /\ UNCHANGED <<kb_closes, exit_status>>
    /\ UNCHANGED <<run_args, kb_ref, chunks, chunk_summaries, final_summary, written>>
    /\ UNCHANGED storeVars
    /\ UNCHANGED pending
    /\ UNCHANGED kb_opens
    /\ UNCHANGED notRun

\* write_transcript, write_summary, write_remarks; "if kb: kb.close()"
main_write ==
    /\ run_pc = "write"
    /\ written' = written \o <<[file |-> "transcript", content |-> NoValue],
                               [file |-> "summary", content |-> final_summary],
                               [file |-> "remarks", content |-> NoValue]>>
    /\ kb_closes' = IF kb_ref THEN kb_closes + 1 ELSE kb_closes
    /\ run_pc' = "exited"
    /\ exit_status' = 0
    /\ Log([ev |-> "write"])
    /\ UNCHANGED <<run_args, kb_ref, chunks, chunk_summaries, final_summary>>
    /\ UNCHANGED storeVars
    /\ UNCHANGED pending
    /\ UNCHANGED kb_opens
    /\ UNCHANGED notRun

\* cli: leaving run_summarizer's try block: "finally: if kb: kb.close()"
CliExitMutant(status) ==
    /\ kb_closes' = kb_closes
    /\ run_pc' = "exited"
    /\ exit_status' = status

CliExit(status) ==
    /\ kb_closes' = IF kb_ref THEN kb_closes + 1 ELSE kb_closes
    /\ run_pc' = "exited"
    /\ exit_status' = status

\* cli run_summarizer up to the try block: the input is checked, the audio
\* file and the model validated
cli_run_summarizer ==
    /\ run_pc = "idle"
    /\ \E mode \in {"none", "audio", "file", "dir", "per_file"},
          kb_dir \in BOOLEAN, kb_rebuild \in BOOLEAN, model \in EmbeddingModels,
          checks_pass \in BOOLEAN :
          /\ (~kb_dir => (~kb_rebuild /\ model = DEFAULT_EMBEDDING_MODEL))
          /\ run_args' = [prog |-> "cli", mode |-> mode, kb_dir |-> kb_dir,
                          kb_rebuild |-> kb_rebuild, embedding_model |-> model]
          /\ IF mode = "none" \/ ~checks_pass
             THEN run_pc' = "exited" /\ exit_status' = 1
             ELSE run_pc' = "cli_init_kb" /\ exit_status' = "none"
    /\ UNCHANGED <<kb_ref, kb_closes, pending, chunks, chunk_summaries, final_summary,
                   written, run_trace>>
    /\ UNCHANGED storeVars
    /\ UNCHANGED kb_opens
    /\ UNCHANGED notRun

\* the documents index_directory makes of a directory of count chunks
DirectoryDocuments(count) == [j \in 1..count |-> CorpusDoc(j)]

\* "if kb_rebuild: kb.delete_collection()": the collection afterwards
StoreAfterRebuildMutant(kb_rebuild) ==
    [collection_exists |-> collection_exists, points |-> points]

StoreAfterRebuild(kb_rebuild) ==
    IF kb_rebuild
    THEN [collection_exists |-> FALSE, points |-> <<>>]
    ELSE [collection_exists |-> collection_exists, points |-> points]

\* init_kb(kb_dir, kb_rebuild, embedding_model, ...): what it does to the store
\* and to the caller, whose kb is the value returned
InitKB(kb_rebuild, requested) ==
    LET mismatched_model == CheckModelMismatch(requested)
        store == StoreAfterRebuild(kb_rebuild)
        cached == store.collection_exists /\ ~kb_rebuild
    IN IF mismatched_model # "none"
       THEN \* kb.close(); sys.exit(1)
            /\ kb_closes' = kb_closes + 1
            /\ run_pc' = "exited"
            /\ exit_status' = 1
            /\ UNCHANGED <<kb_ref, collection_exists, points, indexed_model>>
       ELSE IF cached
            THEN /\ kb_ref' = TRUE
                 /\ run_pc' = NextStage
                 /\ UNCHANGED <<kb_closes, exit_status, collection_exists, points,
                                indexed_model>>
            ELSE \/ \* index_directory raises: kb.close(); sys.exit(1)
                    /\ collection_exists' = store.collection_exists
                    /\ points' = store.points
                    /\ kb_closes' = kb_closes + 1
                    /\ run_pc' = "exited"
                    /\ exit_status' = 1
                    /\ UNCHANGED <<kb_ref, indexed_model>>
                 \/ \* files_loaded == 0: kb.close(); return None
                    /\ collection_exists' = store.collection_exists
                    /\ points' = store.points
                    /\ kb_closes' = kb_closes + 1
                    /\ run_pc' = NextStage
                    /\ UNCHANGED <<kb_ref, exit_status, indexed_model>>
                 \/ \E count \in 1..(MaxPoints - Len(store.points)) :
                       /\ collection_exists' = TRUE
                       /\ points' = store.points \o DirectoryDocuments(count)
                       /\ indexed_model' = requested
                       /\ kb_ref' = TRUE
                       /\ run_pc' = NextStage
                       /\ UNCHANGED <<kb_closes, exit_status>>

\* cli: "if kb_dir: kb = init_kb(...)"
cli_init_kb ==
    /\ run_pc = "cli_init_kb"
    /\ IF run_args.kb_dir
       THEN /\ embedding_model' = run_args.embedding_model
            /\ kb_opens' = kb_opens + 1
            /\ InitKB(run_args.kb_rebuild, run_args.embedding_model)
       ELSE /\ run_pc' = NextStage
            /\ UNCHANGED <<kb_ref, kb_closes, kb_opens, exit_status>>
            /\ UNCHANGED storeVars
    /\ UNCHANGED <<run_args, pending, chunks, chunk_summaries, final_summary, written,
                   run_trace>>
    /\ UNCHANGED notRun

\* the chunks are made and handed to _summarize_chunks
StartPipeline(new_chunks) ==
    /\ chunks' = new_chunks
    /\ run_pc' = "cli_pipeline"
    /\ run_trace' = <<[ev |-> "chunk"]>>
    /\ UNCHANGED <<kb_closes, exit_status>>

\* cli, per-file mode: find_supported_files
cli_find_files ==
    /\ run_pc = "cli_load"
    /\ run_args.mode = "per_file"
    /\ \E files \in SeqsUpTo(RunTexts, MaxFiles) :
          IF files = <<>>
          THEN CliExit(1) /\ UNCHANGED pending
          ELSE /\ pending' = files
               /\ run_pc' = "cli_next_file"
               /\ UNCHANGED <<kb_closes, exit_status>>
    /\ UNCHANGED <<run_args, kb_ref, chunks, chunk_summaries, final_summary, written,
                   run_trace>>
    /\ UNCHANGED storeVars
    /\ UNCHANGED kb_opens
    /\ UNCHANGED notRun

\* cli, per-file mode: one iteration of "for filepath in files" up to the
\* call of _summarize_chunks, or the return after the loop
cli_next_file ==
    /\ run_pc = "cli_next_file"
    /\ IF pending = <<>>
       THEN /\ CliExit(0)
            /\ UNCHANGED <<pending, chunks, run_trace>>
       ELSE LET text == Head(pending)
                new_chunks == ChunkText(text, CHUNK_TARGET_WORDS)
            IN /\ pending' = Tail(pending)
               /\ IF Strip(text) = <<>> \/ new_chunks = <<>>
                  THEN UNCHANGED <<run_pc, chunks, run_trace, kb_closes, exit_status>>
                  ELSE StartPipeline(new_chunks)
    /\ UNCHANGED <<run_args, kb_ref, chunk_summaries, final_summary, written>>
    /\ UNCHANGED storeVars
    /\ UNCHANGED kb_opens
    /\ UNCHANGED notRun

\* cli, combined directory or single text file: the text is loaded and chunked
cli_load_text ==
    /\ run_pc = "cli_load"
    /\ run_args.mode \in {"dir", "file"}
    /\ \/ \* load_input_text raises ValueError
          /\ run_args.mode = "dir"
          /\ CliExit(1)
          /\ UNCHANGED <<chunks, run_trace>>
       \/ \E text \in RunTexts :
             /\ run_args.mode = "dir" => Strip(text) # <<>>
             /\ LET new_chunks == ChunkText(text, CHUNK_TARGET_WORDS)
                IN IF Strip(text) = <<>> \/ new_chunks = <<>>
                   THEN CliExit(1) /\ UNCHANGED <<chunks, run_trace>>
                   ELSE StartPipeline(new_chunks)
    /\ UNCHANGED <<run_args, kb_ref, pending, chunk_summaries, final_summary, written>>
    /\ UNCHANGED storeVars
    /\ UNCHANGED kb_opens
    /\ UNCHANGED notRun

\* cli, audio mode: transcribe, the "no speech" check and chunk_transcript
cli_transcribe ==
    /\ run_pc = "cli_load"
    /\ run_args.mode = "audio"
    /\ \/ \* transcribe raises
          /\ CliExit(1)
          /\ UNCHANGED <<chunks, run_trace>>
       \/ \E ends \in Transcripts, chunk_minutes \in RunChunkMinutes :
             IF ends = <<>>
             THEN CliExit(1) /\ UNCHANGED <<chunks, run_trace>>
             ELSE StartPipeline(ChunkTranscript(SegmentsOf(ends), chunk_minutes))
    /\ UNCHANGED <<run_args, kb_ref, pending, chunk_summaries, final_summary, written>>
    /\ UNCHANGED storeVars
    /\ UNCHANGED kb_opens
    /\ UNCHANGED notRun

\* cli _summarize_chunks(chunks, ..., kb, ...) is entered
cli_summarize_chunks ==
    /\ run_pc = "cli_pipeline"
    /\ chunk_summaries' = <<>>
    /\ run_pc' = "cli_summarize"
    /\ UNCHANGED <<run_args, kb_ref, kb_closes, pending, chunks, final_summary, written,
                   run_trace, exit_status>>
    /\ UNCHANGED storeVars
    /\ UNCHANGED kb_opens
    /\ UNCHANGED notRun

\* cli: one iteration of the loop: kb.retrieve for the chunk, summarize_chunk
cli_summarize_chunk ==
    /\ run_pc = "cli_summarize"
    /\ ~LoopDone(Len(chunk_summaries), Len(chunks))
    /\ LET i == Len(chunk_summaries) + 1 IN
       \/ /\ chunk_summaries' = Append(chunk_summaries, Summary(i))
          /\ Log([ev |-> "summarize", chunk |-> i, ok |-> TRUE])
          /\ UNCHANGED <<run_pc, kb_closes, exit_status>>
       \/ /\ CliExit(1)
          /\ Log([ev |-> "summarize", chunk |-> i, ok |-> FALSE])
          /\ UNCHANGED chunk_summaries
    /\ UNCHANGED <<run_args, kb_ref, pending, chunks, final_summary, written>>
    /\ UNCHANGED storeVars
    /\ UNCHANGED kb_opens
    /\ UNCHANGED notRun

\* cli: kb.retrieve_multi on the summaries, consolidate_summaries, return
cli_consolidate ==
    /\ run_pc = "cli_summarize"
    /\ LoopDone(Len(chunk_summaries), Len(chunks))
    /\ \/ /\ final_summary' = Consolidated(chunk_summaries)
          /\ run_pc' = "cli_returned"
          /\ Log([ev |-> "consolidate", args |-> chunk_summaries, ok |-> TRUE])
          /\ UNCHANGED <<kb_closes, exit_status>>
       \/ /\ CliExit(1)
          /\ Log([ev |-> "consolidate", args |-> chunk_summaries, ok |-> FALSE])
          /\ UNCHANGED final_summary
    /\ UNCHANGED <<run_args, kb_ref, pending, chunks, chunk_summaries, written>>
    /\ UNCHANGED storeVars
    /\ UNCHANGED kb_opens
    /\ UNCHANGED notRun

\* cli: the files written after _summarize_chunks returned
cli_write ==
    /\ run_pc = "cli_returned"
    /\ IF run_args.mode = "per_file"
       THEN /\ written' = Append(written, [file |-> "summary_named",
                                           content |-> final_summary])
            /\ run_pc' = "cli_next_file"
            /\ UNCHANGED <<kb_closes, exit_status>>
       ELSE /\ written' = written \o
                  (IF run_args.mode = "audio"
                   THEN <<[file |-> "transcript", content |-> NoValue]>> ELSE <<>>)
                  \o <<[file |-> "summary", content |-> final_summary]>>
            /\ CliExit(0)
    /\ UNCHANGED <<run_args, kb_ref, pending, chunks, chunk_summaries, final_summary,
                   run_trace>>
    /\ UNCHANGED storeVars
    /\ UNCHANGED kb_opens
    /\ UNCHANGED notRun

(***************************************************************************)
(* main.py : run_podcast; cli/podcast.py : run_podcast                     *)
(***************************************************************************)
\* main.run_podcast up to the knowledge base: interest.md is required and
\* the model is validated
main_run_podcast ==
    /\ run_pc = "idle"
    /\ \E interests \in BOOLEAN, kb_dir \in BOOLEAN, kb_rebuild \in BOOLEAN,
          model \in EmbeddingModels, checks_pass \in BOOLEAN :
          /\ (~kb_dir => (~kb_rebuild /\ model = DEFAULT_EMBEDDING_MODEL))
          /\ run_args' = [prog |-> "main_podcast", source |-> "interests",
                          kb_dir |-> kb_dir, kb_rebuild |-> kb_rebuild,
                          embedding_model |-> model]
          /\ IF ~interests \/ ~checks_pass
             THEN run_pc' = "exited" /\ exit_status' = 1
             ELSE run_pc' = "load_kb" /\ exit_status' = "none"
    /\ Log([ev |-> "start"])
    /\ UNCHANGED <<kb_ref, kb_closes, kb_opens, pending, chunks, chunk_summaries,
                   final_summary, written>>
    /\ UNCHANGED storeVars
    /\ UNCHANGED notRun

\* main.run_podcast: generate_podcast(interests, config, llm_model, progress, kb=kb)
main_generate_podcast ==
    /\ run_pc = "generate"
    /\ \/ /\ CloseAndExit
          /\ Log([ev |-> "generate", ok |-> FALSE])
       \/ /\ run_pc' = "tts"
          /\ Log([ev |-> "generate", ok |-> TRUE])
          /\ UNCHANGED <<kb_closes, exit_status>>
    /\ UNCHANGED <<run_args, kb_ref, kb_opens, pending, chunks, chunk_summaries,
                   final_summary, written>>
    /\ UNCHANGED storeVars
    /\ UNCHANGED notRun

\* main.run_podcast: text-to-speech; its except branch exits at once
main_tts ==
    /\ run_pc = "tts"
    /\ \/ /\ run_pc' = "exited"
          /\ exit_status' = 1
          /\ Log([ev |-> "tts", ok |-> FALSE])
       \/ /\ run_pc' = "podcast_write"
          /\ Log([ev |-> "tts", ok |-> TRUE])
          /\ UNCHANGED exit_status
    /\ UNCHANGED <<run_args, kb_ref, kb_closes, kb_opens, pending, chunks,
                   chunk_summaries, final_summary, written>>
    /\ UNCHANGED storeVars
    /\ UNCHANGED notRun

\* main.run_podcast: write_podcast_output; "if kb: kb.close()"
main_podcast_write ==
    /\ run_pc = "podcast_write"
    /\ written' = written \o <<[file |-> "script", content |-> NoValue],
                               [file |-> "sources", content |-> NoValue]>>
    /\ kb_closes' = IF kb_ref THEN kb_closes + 1 ELSE kb_closes
    /\ run_pc' = "exited"
    /\ exit_status' = 0
    /\ Log([ev |-> "write"])
    /\ UNCHANGED <<run_args, kb_ref, kb_opens, pending, chunks, chunk_summaries,
                   final_summary>>
    /\ UNCHANGED storeVars
    /\ UNCHANGED notRun

\* cli run_podcast up to the try block: the input text is loaded and the
\* model validated
cli_run_podcast ==
    /\ run_pc = "idle"
    /\ \E input_loaded \in BOOLEAN, kb_dir \in BOOLEAN, kb_rebuild \in BOOLEAN,
          model \in EmbeddingModels, checks_pass \in BOOLEAN :
          /\ (~kb_dir => (~kb_rebuild /\ model = DEFAULT_EMBEDDING_MODEL))
          /\ run_args' = [prog |-> "cli_podcast", mode |-> "podcast", kb_dir |-> kb_dir,
                          kb_rebuild |-> kb_rebuild, embedding_model |-> model]
          /\ IF ~input_loaded \/ ~checks_pass
             THEN run_pc' = "exited" /\ exit_status' = 1
             ELSE run_pc' = "cli_init_kb" /\ exit_status' = "none"
    /\ UNCHANGED <<kb_ref, kb_closes, kb_opens, pending, chunks, chunk_summaries,
                   final_summary, written, run_trace>>
    /\ UNCHANGED storeVars
    /\ UNCHANGED notRun

\* cli run_podcast: generate_podcast(..., kb=kb)
cli_generate_podcast ==
    /\ run_pc = "cli_generate"
    /\ \/ CliExit(1)
       \/ /\ run_pc' = "cli_tts"
          /\ UNCHANGED <<kb_closes, exit_status>>
    /\ UNCHANGED <<run_args, kb_ref, kb_opens, pending, chunks, chunk_summaries,
                   final_summary, written, run_trace>>
    /\ UNCHANGED storeVars
    /\ UNCHANGED notRun

\* cli run_podcast: text-to-speech, then write_podcast_output
cli_tts ==
    /\ run_pc = "cli_tts"
    /\ \/ CliExit(1) /\ UNCHANGED written
       \/ /\ written' = written \o <<[file |-> "script", content |-> NoValue],
                                     [file |-> "sources", content |-> NoValue]>>
          /\ CliExit(0)
    /\ UNCHANGED <<run_args, kb_ref, kb_opens, pending, chunks, chunk_summaries,
                   final_summary, run_trace>>
    /\ UNCHANGED storeVars
    /\ UNCHANGED notRun

\* the run is over; the vector store stays as the run left it
run_over ==
    /\ run_pc = "exited"
    /\ run_pc' = "idle"
    /\ run_args' = NoValue
    /\ kb_ref' = FALSE
    /\ kb_closes' = 0
    /\ kb_opens' = 0
    /\ chunks' = <<>>
    /\ chunk_summaries' = <<>>
    /\ final_summary' = NoValue
    /\ written' = <<>>
    /\ run_trace' = <<>>
    /\ exit_status' = "none"
    /\ pending' = <<>>
    /\ UNCHANGED storeVars
    /\ UNCHANGED notRun

RunInit ==
    /\ run_pc = "idle"
    /\ run_args = NoValue
    /\ kb_ref = FALSE
    /\ kb_closes = 0
    /\ kb_opens = 0
    /\ chunks = <<>>
    /\ chunk_summaries = <<>>
    /\ final_summary = NoValue
    /\ written = <<>>
    /\ run_trace = <<>>
    /\ exit_status = "none"
    /\ pending = <<>>

RunNext ==
    \/ main_run_summarizer
    \/ main_load_kb
    \/ main_index_cached
    \/ main_index_kb
    \/ main_transcribe
    \/ main_summarize_chunk
    \/ main_consolidate
    \/ main_enhance
    \/ main_score_remarks
    \/ main_write
    \/ cli_run_summarizer
    \/ cli_init_kb
    \/ cli_find_files
    \/ cli_next_file
    \/ cli_load_text
    \/ cli_transcribe
    \/ cli_summarize_chunks
    \/ cli_summarize_chunk
    \/ cli_consolidate
    \/ cli_write
    \/ main_run_podcast
    \/ main_generate_podcast
    \/ main_tts
    \/ main_podcast_write
    \/ cli_run_podcast
    \/ cli_generate_podcast
    \/ cli_tts
    \/ run_over

(***************************************************************************)
(* Properties of the pipeline                                              *)
(***************************************************************************)
EventsAt(kind) == {k \in 1..Len(run_trace) : run_trace[k].ev = kind}

IsSummarize(e) == e.ev = "summarize"

\* C9: the stages run in the order chunk, per-chunk summarize, consolidate:
\* consolidate_summaries is called at most once per run, after summarize_chunk
\* answered for every chunk, with one summary per chunk in chunk order.
C9_StageOrder ==
    /\ Cardinality(EventsAt("consolidate")) <= 1
    /\ \A k \in EventsAt("consolidate") :
          /\ Len(run_trace[k].args) = Len(chunks)
          /\ run_trace[k].args = [i \in 1..Len(chunks) |-> Summary(i)]
          /\ SelectSeq(SubSeq(run_trace, 1, k - 1), IsSummarize)
                = [i \in 1..Len(chunks) |-> [ev |-> "summarize", chunk |-> i, ok |-> TRUE]]
          /\ \A j \in EventsAt("summarize") : j < k
    /\ \A j \in EventsAt("summarize") : \E c \in EventsAt("chunk") : c < j

\* three chunks were summarized and consolidated
C9_Witness ==
    /\ Len(chunks) = 3
    /\ \E k \in EventsAt("consolidate") :
          run_trace[k].ok /\ Len(run_trace[k].args) = 3

\* C10: main.run_summarizer calls enhance_with_kb only after a successful
\* consolidation, with a knowledge base loaded whose retrieve on the
\* consolidated summary gave a non-empty context; otherwise the summary
\* written is the consolidated summary unchanged.
C10_EnhancementOptionalAndLast ==
    /\ \A k \in EventsAt("enhance") :
          /\ kb_ref
          /\ run_trace[k].base = Consolidated(chunk_summaries)
          /\ run_trace[k - 1] = [ev |-> "retrieve", query |-> run_trace[k].base,
                                 found |-> TRUE]
          /\ \E c \in EventsAt("consolidate") :
                c < k /\ run_trace[c].ok /\ Consolidated(run_trace[c].args) = run_trace[k].base
          /\ \A j \in EventsAt("consolidate") \cup EventsAt("summarize") : j < k
    /\ Cardinality(EventsAt("enhance")) <= 1
    /\ \A f \in 1..Len(written) :
          written[f].file = "summary" =>
             written[f].content =
                IF \E k \in EventsAt("enhance") : run_trace[k].ok
                THEN Enhanced(Consolidated(chunk_summaries))
                ELSE Consolidated(chunk_summaries)

\* the summary was enhanced with the knowledge base and written
C10_Witness ==
    /\ run_pc = "exited"
    /\ exit_status = 0
    /\ kb_ref
    /\ \E k \in EventsAt("enhance") : run_trace[k].ok
    /\ \E f \in 1..Len(written) :
          written[f] = [file |-> "summary",
                        content |-> Enhanced(Consolidated(chunk_summaries))]

IsStage(e) == e.ev \in {"summarize", "consolidate"}

\* the run writes its files once, at the end (not the cli's per-file mode)
WritesAtEnd == run_args.prog = "main" \/ run_args.mode \in {"audio", "file", "dir"}

\* C11: a chunk summary or a consolidation that fails ends the run with exit
\* status 1 at that stage: nothing is summarized or consolidated after it, and
\* where the files are written at the end of the run none has been written.
C11_FailureStopsRun ==
    \A k \in 1..Len(run_trace) :
        (IsStage(run_trace[k]) /\ ~run_trace[k].ok) =>
            /\ k = Len(run_trace)
            /\ run_pc = "exited"
            /\ exit_status = 1
            /\ WritesAtEnd => written = <<>>

\* the cli's audio mode failed on the second of three chunks
C11_Witness ==
    /\ run_pc = "exited"
    /\ run_args.prog = "cli"
    /\ run_args.mode = "audio"
    /\ Len(chunks) = 3
    /\ run_trace[Len(run_trace)] = [ev |-> "summarize", chunk |-> 2, ok |-> FALSE]
    /\ written = <<>>

(***************************************************************************)
(* core/llm.py : rank_articles                                             *)
(*                                                                         *)
(* The response of the model is a sequence of lexemes: brackets, commas,   *)
(* the numbers 0 and 1, the literal true, and "x" for any other text.      *)
(***************************************************************************)
Lexemes == {"[", "]", ",", "x", "0", "1", "true"}
ArticleCounts == {0, 1, 2}
MaxArticlesSet == {0, 1, 2}

NoFnCall == [op |-> "none"]

\* text.index(c): the first position of c, 0 standing for ValueError
RECURSIVE IndexFrom(_, _, _)
IndexFrom(text, c, i) ==
    IF i > Len(text) THEN 0
    ELSE IF text[i] = c THEN i ELSE IndexFrom(text, c, i + 1)

Index(text, c) == IndexFrom(text, c, 1)

\* text.rindex(c): the last position of c, 0 standing for ValueError
RECURSIVE RIndexFrom(_, _, _)
RIndexFrom(text, c, i) ==
    IF i < 1 THEN 0
    ELSE IF text[i] = c THEN i ELSE RIndexFrom(text, c, i - 1)

RIndex(text, c) == RIndexFrom(text, c, Len(text))

JsonFail == [ok |-> FALSE, val |-> [k |-> "none", v |-> 0], items |-> <<>>, next |-> 0]

\* json.loads, one value starting at lexeme i: an int, true (Python's True,
\* an int instance equal to 1) or an array whose elements are items
RECURSIVE ParseValue(_, _)
RECURSIVE ParseElements(_, _, _)
ParseValue(t, i) ==
    IF i > Len(t) THEN JsonFail
    ELSE IF t[i] = "0"
         THEN [ok |-> TRUE, val |-> [k |-> "int", v |-> 0], items |-> <<>>, next |-> i + 1]
    ELSE IF t[i] = "1"
         THEN [ok |-> TRUE, val |-> [k |-> "int", v |-> 1], items |-> <<>>, next |-> i + 1]
    ELSE IF t[i] = "true"
         THEN [ok |-> TRUE, val |-> [k |-> "bool", v |-> 1], items |-> <<>>, next |-> i + 1]
    ELSE IF t[i] = "["
         THEN IF i + 1 <= Len(t) /\ t[i + 1] = "]"
              THEN [ok |-> TRUE, val |-> [k |-> "list", v |-> 0], items |-> <<>>,
                    next |-> i + 2]
              ELSE ParseElements(t, i + 1, <<>>)
    ELSE JsonFail

ParseElements(t, i, acc) ==
    LET r == ParseValue(t, i) IN
    IF ~r.ok \/ r.next > Len(t) THEN JsonFail
    ELSE IF t[r.next] = ","
         THEN ParseElements(t, r.next + 1, Append(acc, r.val))
    ELSE IF t[r.next] = "]"
         THEN [ok |-> TRUE, val |-> [k |-> "list", v |-> 0],
               items |-> Append(acc, r.val), next |-> r.next + 1]
    ELSE JsonFail

\* json.loads(s): the whole of s is one value
JsonLoads(s) ==
    LET r == ParseValue(s, 1)
    IN IF r.ok /\ r.next = Len(s) + 1 THEN r ELSE JsonFail

\* "isinstance(i, int) and 0 <= i < len(articles)"
ValidIndexMutant(val, n_articles) ==
    val.k \in {"int", "bool"} /\ 0 <= val.v /\ val.v <= n_articles

ValidIndex(val, n_articles) ==
    val.k \in {"int", "bool"} /\ 0 <= val.v /\ val.v < n_articles

\* list(range(min(max_articles, len(articles))))
DefaultOrder(n_articles, max_articles) ==
    [i \in 1..Min2(max_articles, n_articles) |-> [k |-> "int", v |-> i - 1]]

\* rank_articles after call_llm answered with response (max_articles >= 0)
RankArticles(n_articles, response, max_articles) ==
    LET start == Index(response, "[")
        end == RIndex(response, "]")
        loaded == JsonLoads(SubSeq(response, start, end))
    IN IF start = 0 \/ end = 0 \/ ~loaded.ok
       THEN [parsed |-> FALSE, out |-> DefaultOrder(n_articles, max_articles)]
       ELSE LET valid == SelectSeq(loaded.items, LAMBDA i : ValidIndex(i, n_articles))
            IN [parsed |-> TRUE,
                out |-> SubSeq(valid, 1, Min2(max_articles, Len(valid)))]

rank_articles ==
    /\ fn_pc = "idle"
    /\ \E n_articles \in ArticleCounts, max_articles \in MaxArticlesSet,
          response \in SeqsUpTo(Lexemes, MaxRespLen) :
          LET r == RankArticles(n_articles, response, max_articles)
          IN fn_call' = [op |-> "rank_articles", n_articles |-> n_articles,
                         max_articles |-> max_articles, response |-> response,
                         parsed |-> r.parsed, out |-> r.out]
    /\ fn_pc' = "returned"
    /\ UNCHANGED notFn

(***************************************************************************)
(* podcast/loader.py : load_input_text                                     *)
(***************************************************************************)
\* what extract_text may give for a file: None, "", blank text, text
Extracted == {[none |-> TRUE, text |-> <<>>], [none |-> FALSE, text |-> <<>>],
              [none |-> FALSE, text |-> <<" ", "\n">>],
              [none |-> FALSE, text |-> <<" ", "w", "\n">>]}

\* the files find_supported_files returns, in its order
FileNames == <<"a", "b", "c", "d">>

\* "text and text.strip()"
HasTextMutant(extracted) == ~extracted.none /\ extracted.text # <<>>

HasText(extracted) ==
    ~extracted.none /\ extracted.text # <<>> /\ Strip(extracted.text) # <<>>

\* f"--- {filename} ---\n{text.strip()}"
Section(file) == <<"--- " \o file.name \o " ---", "\n">> \o Strip(file.extracted.text)

NoText == [raised |-> "ValueError", text |-> <<>>, used_files |-> <<>>]

\* load_input_text(path) for a path of the given kind; files are the
\* directory's supported files with what extract_text gives for each
LoadInputText(kind, files) ==
    IF kind = "file"
    THEN IF ~HasText(files[1].extracted) THEN NoText
         ELSE [raised |-> "none", text |-> Strip(files[1].extracted.text),
               used_files |-> <<files[1].name>>]
    ELSE IF kind = "dir"
    THEN IF files = <<>> THEN NoText
         ELSE LET used == SelectSeq(files, LAMBDA f : HasText(f.extracted))
                  parts == [i \in 1..Len(used) |-> Section(used[i])]
              IN IF parts = <<>> THEN NoText
                 ELSE [raised |-> "none", text |-> Join(parts, <<"\n", "\n">>),
                       used_files |-> [i \in 1..Len(used) |-> used[i].name]]
    ELSE NoText

load_input_text ==
    /\ fn_pc = "idle"
    /\ \E kind \in {"file", "dir", "missing"}, n \in 0..MaxFiles :
          /\ kind = "file" => n = 1
          /\ kind = "missing" => n = 0
          /\ \E texts \in [1..n -> Extracted] :
                LET files == [i \in 1..n |-> [name |-> FileNames[i], extracted |-> texts[i]]]
                    r == LoadInputText(kind, files)
                IN fn_call' = [op |-> "load_input_text", kind |-> kind, files |-> files,
                               raised |-> r.raised, text |-> r.text,
                               used_files |-> r.used_files]
    /\ fn_pc' = "returned"
    /\ UNCHANGED notFn

(***************************************************************************)
(* podcast/tts.py : _parse_two_host_script                                 *)
(*                                                                         *)
(* A line is a sequence of the tokens "ALEX", "SAM", ":", " " and "w" (any *)
(* other word); a script is the sequence of its lines.                     *)
(***************************************************************************)
Speakers == {"ALEX", "SAM"}

ScriptLines == {<<>>, <<" ">>, <<"w">>, <<"w", " ", "w">>,
                <<"ALEX", ":">>, <<"ALEX", ":", " ", "w">>, <<"SAM", ":", "w">>,
                <<" ", "SAM", ":", " ">>, <<"w", "ALEX", ":">>, <<"ALEX", " ", ":">>}

\* re.match(r"^(ALEX|SAM):\s*(.*)", line)
Matches(line) == Len(line) >= 2 /\ line[1] \in Speakers /\ line[2] = ":"

\* match.group(2)
Group2(line) == LStrip(SubSeq(line, 3, Len(line)))

\* "[match.group(2)] if match.group(2) else []"
FirstLinesMutant(group2) == <<group2>>

FirstLines(group2) == IF group2 # <<>> THEN <<group2>> ELSE <<>>

\* "if current_speaker and current_lines: segments.append(...)"
Flush(st) ==
    IF st.current_speaker # "None" /\ st.current_lines # <<>>
    THEN Append(st.segments, [speaker |-> st.current_speaker,
                              text |-> Join(st.current_lines, <<" ">>)])
    ELSE st.segments

\* one iteration of "for line in script.splitlines()"
ParseLine(st, raw) ==
    LET line == Strip(raw) IN
    IF line = <<>> THEN st
    ELSE IF Matches(line)
         THEN [segments |-> Flush(st), current_speaker |-> line[1],
               current_lines |-> FirstLines(Group2(line))]
    ELSE IF st.current_speaker # "None"
         THEN [st EXCEPT !.current_lines = Append(@, line)]
    ELSE st

RECURSIVE ParseLines(_, _)
ParseLines(st, lines) ==
    IF lines = <<>> THEN st ELSE ParseLines(ParseLine(st, Head(lines)), Tail(lines))

\* _parse_two_host_script(script)
ParseTwoHostScript(lines) ==
    Flush(ParseLines([segments |-> <<>>, current_speaker |-> "None",
                      current_lines |-> <<>>], lines))

parse_two_host_script ==
    /\ fn_pc = "idle"
    /\ \E lines \in SeqsUpTo(ScriptLines, MaxLines) :
          fn_call' = [op |-> "_parse_two_host_script", lines |-> lines,
                      out |-> ParseTwoHostScript(lines)]
    /\ fn_pc' = "returned"
    /\ UNCHANGED notFn

(***************************************************************************)
(* utils/validation.py : check_ollama                                      *)
(*                                                                         *)
(* A model name is a sequence of the characters "a", "b" and ":".          *)
(***************************************************************************)
NameChars == {"a", "b", ":"}
AvailableCounts == {0, 1, 2}

\* ":" in llm_model
HasTag(name) == \E i \in 1..Len(name) : name[i] = ":"

\* name.split(":")[0]
BaseOf(name) == Split(name, <<":">>)[1]

\* the test of an untagged name against one available model
BaseMatchesMutant(llm_model, name) ==
    Len(name) >= Len(llm_model) /\ SubSeq(name, 1, Len(llm_model)) = llm_model

BaseMatches(llm_model, name) == llm_model = BaseOf(name)

\* check_ollama once ollama.list() has answered: found
ModelFound(llm_model, available) ==
    IF HasTag(llm_model)
    THEN \E i \in 1..Len(available) : llm_model = available[i]
    ELSE \E i \in 1..Len(available) : BaseMatches(llm_model, available[i])

check_ollama ==
    /\ fn_pc = "idle"
    /\ \/ \* ollama.list() raises: the server is not running
          fn_call' = [op |-> "check_ollama", listed |-> FALSE, llm_model |-> <<>>,
                      available |-> <<>>, exited |-> TRUE, exit_status |-> 1]
       \/ \E llm_model \in SeqsUpTo(NameChars, MaxNameLen), n \in AvailableCounts :
             \E available \in [1..n -> SeqsUpTo(NameChars, MaxNameLen) \ {<<>>}] :
                fn_call' = [op |-> "check_ollama", listed |-> TRUE,
                            llm_model |-> llm_model, available |-> available,
                            exited |-> ~ModelFound(llm_model, available),
                            exit_status |-> 1]
    /\ fn_pc' = "returned"
    /\ UNCHANGED notFn

(***************************************************************************)
(* core/hardware.py : _is_model_installed                                  *)
(***************************************************************************)
\* "model in name" for two strings: model is a substring of name
Contains(model, name) ==
    \E i \in 1..(Len(name) - Len(model) + 1) :
        SubSeq(name, i, i + Len(model) - 1) = model

\* name.startswith(model_base)
StartsWith(name, model_base) ==
    /\ Len(name) >= Len(model_base)
    /\ SubSeq(name, 1, Len(model_base)) = model_base

\* any(model in name or name.startswith(model_base) for name in available)
IsModelInstalled(model, available) ==
    LET model_base == BaseOf(model)
    IN  \E i \in 1..Len(available) :
           Contains(model, available[i]) \/ StartsWith(available[i], model_base)

\* recommend_model's test of one candidate against the available models,
\* with the answer check_ollama gives for the same model and list
is_model_installed ==
    /\ fn_pc = "idle"
    /\ \E model \in SeqsUpTo(NameChars, MaxNameLen) \ {<<>>}, n \in AvailableCounts :
          \E available \in [1..n -> SeqsUpTo(NameChars, MaxNameLen) \ {<<>>}] :
             fn_call' = [op |-> "is_model_installed", model |-> model,
                         available |-> available,
                         installed |-> IsModelInstalled(model, available),
                         pull_hint |-> ~IsModelInstalled(model, available),
                         found |-> ModelFound(model, available)]
    /\ fn_pc' = "returned"
    /\ UNCHANGED notFn

(***************************************************************************)
(* core/llm.py : _set_api_keys_from_config                                 *)
(*                                                                         *)
(* An optional string is the empty set (None, no such key) or the set of   *)
(* the one string.                                                         *)
(***************************************************************************)
EnvNames == {"OPENAI_API_KEY", "ANTHROPIC_API_KEY", "OLLAMA_HOST"}
EnvValues == {{}, {""}, {"env-key"}}
ConfigValues == {{}, {""}, {"cfg-a"}, {"cfg-b"}}

\* the truth value Python gives an optional string
Truthy(value) == value # {} /\ value # {""}

\* the llm_config arguments: None, {}, a dict without "llm", a dict with it
LlmConfigs ==
    {[shape |-> sh, openai_api_key |-> {}, anthropic_api_key |-> {}] :
        sh \in {"None", "empty", "no_llm"}}
    \cup {[shape |-> "llm", openai_api_key |-> o, anthropic_api_key |-> a] :
             o \in ConfigValues, a \in ConfigValues}

\* key_map
KeyMap == <<[config_key |-> "openai_api_key", env_key |-> "OPENAI_API_KEY"],
            [config_key |-> "anthropic_api_key", env_key |-> "ANTHROPIC_API_KEY"]>>

\* llm.get(config_key)
ConfigGet(llm_config, config_key) ==
    IF llm_config.shape # "llm" THEN {}
    ELSE IF config_key = "openai_api_key" THEN llm_config.openai_api_key
    ELSE llm_config.anthropic_api_key

\* "if value and not os.environ.get(env_key)"
ShouldSetMutant(value, current) == Truthy(value)

ShouldSet(value, current) == Truthy(value) /\ ~Truthy(current)

\* "for config_key, env_key in key_map.items()"
RECURSIVE SetKeys(_, _, _)
SetKeys(environ, llm_config, key_map) ==
    IF key_map = <<>> THEN environ
    ELSE LET value == ConfigGet(llm_config, key_map[1].config_key)
             env_key == key_map[1].env_key
         IN SetKeys(IF ShouldSet(value, environ[env_key])
                    THEN [environ EXCEPT ![env_key] = value]
                    ELSE environ,
                    llm_config, Tail(key_map))

SetApiKeysFromConfig(environ, llm_config) ==
    IF llm_config.shape \in {"None", "empty"} THEN environ
    ELSE SetKeys(environ, llm_config, KeyMap)

set_api_keys_from_config ==
    /\ fn_pc = "idle"
    /\ \E environ \in [EnvNames -> EnvValues], llm_config \in LlmConfigs :
          fn_call' = [op |-> "_set_api_keys_from_config", environ |-> environ,
                      llm_config |-> llm_config,
                      environ_after |-> SetApiKeysFromConfig(environ, llm_config)]
    /\ fn_pc' = "returned"
    /\ UNCHANGED notFn

(***************************************************************************)
(* podcast/tts.py : MacOSSay.synthesize                                    *)
(*                                                                         *)
(* A path is a sequence of pieces: "/", names, and suffixes such as        *)
(* ".wav".                                                                 *)
(***************************************************************************)
PathPieces == {"/", "tmp", "out", ".wav", ".files"}

\* str.replace(old, new) on the pieces of a path: every occurrence
Replace(path, old, new) ==
    [i \in 1..Len(path) |-> IF path[i] = old THEN new ELSE path[i]]

\* aiff_path = output_path.replace(".wav", ".aiff")
AiffPath(output_path) == Replace(output_path, ".wav", ".aiff")

\* say writes aiff_path, ffmpeg writes output_path, then
\* "if os.path.exists(aiff_path): os.unlink(aiff_path)"
FilesAfterSynthesize(output_path, aiff_path) ==
    ({aiff_path} \cup {output_path}) \ {aiff_path}

synthesize ==
    /\ fn_pc = "idle"
    /\ \E output_path \in SeqsUpTo(PathPieces, MaxPathLen) \ {<<>>} :
          LET aiff_path == AiffPath(output_path)
          IN fn_call' = [op |-> "synthesize", output_path |-> output_path,
                         aiff_path |-> aiff_path,
                         files |-> FilesAfterSynthesize(output_path, aiff_path)]
    /\ fn_pc' = "returned"
    /\ UNCHANGED notFn

(***************************************************************************)
(* fileio/writer.py : write_transcript; prompts.py : format_timestamp;     *)
(* core/transcriber.py : parse_transcript                                  *)
(*                                                                         *)
(* A file is a sequence of characters; "**[" and "]**" are written as one  *)
(* character each, and a segment text is made of "w" and " ".              *)
(***************************************************************************)
StartSet == {0, 59, 3600, 3725}
SegmentTexts == {<<"w">>, <<"w", " ", "w">>, <<" ", "w">>, <<"w", " ">>, <<" ">>}
DigitChars == <<"0", "1", "2", "3", "4", "5", "6", "7", "8", "9">>
SecondsPerHour == 3600

\* f"{n:d}"
RECURSIVE FormatInt(_)
FormatInt(n) ==
    IF n < 10 THEN <<DigitChars[n + 1]>>
    ELSE Append(FormatInt(n \div 10), DigitChars[(n % 10) + 1])

\* f"{n:02d}"
FormatTwoDigits(n) == IF n < 10 THEN <<"0">> \o FormatInt(n) ELSE FormatInt(n)

\* format_timestamp(seconds)
FormatTimestamp(seconds) ==
    LET h == seconds \div SecondsPerHour
        m == (seconds % SecondsPerHour) \div SecondsPerMinute
        sec == seconds % SecondsPerMinute
    IN IF h > 0
       THEN FormatInt(h) \o <<":">> \o FormatTwoDigits(m) \o <<":">> \o FormatTwoDigits(sec)
       ELSE FormatInt(m) \o <<":">> \o FormatTwoDigits(sec)

\* the lines of write_transcript: the title, then one line per segment
TranscriptLines(segments) ==
    <<<<"#", " ", "T", "\n">>>> \o
    [i \in 1..Len(segments) |->
        <<"**[">> \o FormatTimestamp(segments[i].start) \o <<"]**", " ">>
        \o segments[i].text \o <<"\n">>]

\* write_transcript(segments, output_dir): the content of transcript.md
WriteTranscript(segments) == Join(TranscriptLines(segments), <<"\n">>)

\* int(digits)
RECURSIVE ParseInt(_)
ParseInt(digits) ==
    IF digits = <<>> THEN 0
    ELSE ParseInt(SubSeq(digits, 1, Len(digits) - 1)) * 10
         + ((CHOOSE d \in 1..10 : DigitChars[d] = digits[Len(digits)]) - 1)

\* the characters \d, \s and . stand for
DigitClass == {DigitChars[d] : d \in 1..10}
SpaceClass == {" ", "\n"}
DotClass == (DigitClass \cup {" ", ":", "#", "T", "w", "**[", "]**"})

\* the length of the longest run of characters of a class from position i
RECURSIVE RunLen(_, _, _)
RunLen(content, i, class) ==
    IF i <= Len(content) /\ content[i] \in class
    THEN 1 + RunLen(content, i + 1, class) ELSE 0

\* (?::\d{2}) at position i
GroupAt(content, i) ==
    /\ i + 2 <= Len(content)
    /\ content[i] = ":"
    /\ content[i + 1] \in DigitClass
    /\ content[i + 2] \in DigitClass

\* the pattern \*\*\[(\d+(?::\d{2}){1,2})\]\*\*\s+(.+) tried at position i:
\* the match with its two groups and the position after it, or no match
MatchAt(content, i) ==
    LET digits == RunLen(content, i + 1, DigitClass)
        g == i + 1 + digits
        groups == IF GroupAt(content, g) /\ GroupAt(content, g + 3)
                     /\ g + 6 <= Len(content) /\ content[g + 6] = "]**"
                  THEN 2
                  ELSE IF GroupAt(content, g) /\ g + 3 <= Len(content)
                          /\ content[g + 3] = "]**"
                       THEN 1 ELSE 0
        close == g + 3 * groups
        spaces == RunLen(content, close + 1, SpaceClass)
        \* \s+ gives characters back until one that is not a newline follows
        kept == {k \in 1..spaces :
                    close + k + 1 <= Len(content) /\ content[close + k + 1] # "\n"}
    IN IF i > Len(content) \/ content[i] # "**[" \/ digits = 0 \/ groups = 0 \/ kept = {}
       THEN [matched |-> FALSE]
       ELSE LET k == CHOOSE k \in kept : \A j \in kept : j <= k
                from == close + k + 1
                len == RunLen(content, from, DotClass)
            IN [matched |-> TRUE,
                ts_str |-> SubSeq(content, i + 1, close - 1),
                text |-> SubSeq(content, from, from + len - 1),
                next |-> from + len]

\* pattern.findall(content)
RECURSIVE FindAll(_, _)
FindAll(content, i) ==
    IF i > Len(content) THEN <<>>
    ELSE LET m == MatchAt(content, i)
         IN IF m.matched
            THEN <<[ts_str |-> m.ts_str, text |-> m.text]>> \o FindAll(content, m.next)
            ELSE FindAll(content, i + 1)

\* the seconds of a matched timestamp
TimestampSeconds(ts_str) ==
    LET parts == Split(ts_str, <<":">>)
    IN IF Len(parts) = 3
       THEN ParseInt(parts[1]) * SecondsPerHour + ParseInt(parts[2]) * SecondsPerMinute
            + ParseInt(parts[3])
       ELSE ParseInt(parts[1]) * SecondsPerMinute + ParseInt(parts[2])

\* "Fill in end times"
FillEndTimes(segments) ==
    [i \in 1..Len(segments) |->
        [segments[i] EXCEPT !.end = IF i < Len(segments) THEN segments[i + 1].start
                                    ELSE segments[i].start + 1]]

\* parse_transcript on a file of the given content
ParseTranscript(content) ==
    LET matches == FindAll(content, 1)
        text == Strip(content)
    IN IF matches = <<>>
       THEN IF text # <<>> THEN <<[start |-> 0, end |-> 1, text |-> text]>> ELSE <<>>
       ELSE FillEndTimes([i \in 1..Len(matches) |->
                [start |-> TimestampSeconds(matches[i].ts_str), end |-> 0,
                 text |-> Strip(matches[i].text)]])

\* the segment lists with starts in non-decreasing order
WrittenSegments ==
    {segs \in SeqsUpTo([start : StartSet, text : SegmentTexts], MaxWritten) :
        \A i \in 1..(Len(segs) - 1) : segs[i].start <= segs[i + 1].start}

\* write_transcript(segments, output_dir), then parse_transcript(path)
parse_transcript ==
    /\ fn_pc = "idle"
    /\ \E segments \in WrittenSegments :
          fn_call' = [op |-> "parse_transcript", segments |-> segments,
                      content |-> WriteTranscript(segments),
                      parsed |-> ParseTranscript(WriteTranscript(segments))]
    /\ fn_pc' = "returned"
    /\ UNCHANGED notFn

fn_return ==
    /\ fn_pc = "returned"
    /\ fn_pc' = "idle"
    /\ fn_call' = NoFnCall
    /\ UNCHANGED notFn

FnInit ==
    /\ fn_pc = "idle"
    /\ fn_call = NoFnCall

FnNext ==
    \/ is_model_installed
    \/ rank_articles
    \/ load_input_text
    \/ parse_two_host_script
    \/ check_ollama
    \/ set_api_keys_from_config
    \/ synthesize
    \/ parse_transcript
    \/ fn_return

(***************************************************************************)
(* Properties of the helper functions                                      *)
(***************************************************************************)
FnCalled(op) == fn_pc = "returned" /\ fn_call.op = op

\* the response is one flat array of numbers and nothing else around it
IsFlatArray(r) ==
    /\ Len(r) >= 3
    /\ Len(r) % 2 = 1
    /\ r[1] = "[" /\ r[Len(r)] = "]"
    /\ \A i \in 2..(Len(r) - 1) :
          IF i % 2 = 0 THEN r[i] \in {"0", "1"} ELSE r[i] = ","

\* the numbers of a flat array, in order
FlatNumbers(r) == [j \in 1..((Len(r) - 1) \div 2) |-> IF r[2 * j] = "0" THEN 0 ELSE 1]

\* no bracket, brackets in the wrong order, or other text between them
Unparseable(r) ==
    \/ Index(r, "[") = 0
    \/ RIndex(r, "]") = 0
    \/ RIndex(r, "]") < Index(r, "[")
    \/ \E i \in Index(r, "[")..RIndex(r, "]") : r[i] = "x"

\* C12: for max_articles >= 0 rank_articles returns at most max_articles
\* indices i with 0 <= i < len(articles), in the order of the response; an
\* unparseable response gives 0, 1, ..., min(max_articles, len(articles)) - 1.
C12_RankedIndices ==
    FnCalled("rank_articles") =>
        LET out == fn_call.out
            n == fn_call.n_articles
            r == fn_call.response
        IN /\ Len(out) <= fn_call.max_articles
           /\ \A i \in 1..Len(out) :
                 out[i].k \in {"int", "bool"} /\ 0 <= out[i].v /\ out[i].v < n
           /\ IsFlatArray(r) =>
                 LET wanted == SelectSeq(FlatNumbers(r), LAMBDA v : v < n)
                 IN [i \in 1..Len(out) |-> out[i].v]
                       = SubSeq(wanted, 1, Min2(fn_call.max_articles, Len(wanted)))
           /\ Unparseable(r) =>
                 /\ ~fn_call.parsed
                 /\ Len(out) = Min2(fn_call.max_articles, n)
                 /\ \A i \in 1..Len(out) : out[i] = [k |-> "int", v |-> i - 1]
           /\ ~fn_call.parsed => out = DefaultOrder(n, fn_call.max_articles)

\* the response "[1,0]" for two articles, cut to one index
C12_Witness ==
    /\ FnCalled("rank_articles")
    /\ fn_call.response = <<"[", "1", ",", "0", "]">>
    /\ fn_call.n_articles = 2
    /\ fn_call.max_articles = 1
    /\ fn_call.out = <<[k |-> "int", v |-> 1]>>

\* some character of the extracted text is not white space
NonBlank(extracted) ==
    ~extracted.none /\ \E i \in 1..Len(extracted.text) : extracted.text[i] \notin {" ", "\n"}

\* the '--- <filename> ---' lines of a text, in order
Headers(text) ==
    SelectSeq(text, LAMBDA t : t \in {"--- " \o FileNames[i] \o " ---" : i \in 1..Len(FileNames)})

\* C13: on a directory the source files are exactly the files with non-blank
\* text, in discovery order, each with one '--- <filename> ---' section;
\* ValueError is raised for a missing path, a directory without supported
\* file or without any text, and a single file with blank text.
C13_LoadedFiles ==
    FnCalled("load_input_text") =>
        LET files == fn_call.files
            good == SelectSeq(files, LAMBDA f : NonBlank(f.extracted))
            names == [i \in 1..Len(good) |-> good[i].name]
        IN /\ (fn_call.raised = "ValueError") <=>
                 \/ fn_call.kind = "missing"
                 \/ good = <<>>
           /\ fn_call.raised = "none" =>
                 /\ fn_call.used_files = names
                 /\ fn_call.kind = "dir" =>
                       Headers(fn_call.text)
                          = [i \in 1..Len(names) |-> "--- " \o names[i] \o " ---"]
                 /\ fn_call.text # <<>>

\* a directory whose first file is blank and whose second file has text
C13_Witness ==
    /\ FnCalled("load_input_text")
    /\ fn_call.kind = "dir"
    /\ Len(fn_call.files) = 2
    /\ fn_call.files[1].extracted = [none |-> FALSE, text |-> <<" ", "\n">>]
    /\ fn_call.used_files = <<"b">>
    /\ fn_call.text = <<"--- b ---", "\n", "w">>

\* the line, white space around it removed, starts with 'ALEX:' or 'SAM:'
OpensTurn(raw) ==
    \E k \in 1..Len(raw) :
        /\ \A j \in 1..(k - 1) : raw[j] = " "
        /\ raw[k] \in {"ALEX", "SAM"}
        /\ k < Len(raw) /\ raw[k + 1] = ":"

\* the line from its first to its last character that is not a space
Trimmed(raw) ==
    LET inked == {i \in 1..Len(raw) : raw[i] # " "}
    IN IF inked = {} THEN <<>>
       ELSE SubSeq(raw, CHOOSE i \in inked : \A j \in inked : i <= j,
                        CHOOSE i \in inked : \A j \in inked : j <= i)

\* what a line contributes to its turn: the text after the speaker prefix, or
\* the whole line
Contribution(raw) ==
    LET line == Trimmed(raw)
    IN IF OpensTurn(raw) THEN Trimmed(SubSeq(line, 3, Len(line))) ELSE line

\* the turn opened at line p: its speaker and the contributions of the lines
\* up to the next opening line
TurnAt(lines, p) ==
    LET later == {q \in (p + 1)..Len(lines) : OpensTurn(lines[q])}
        last == IF later = {} THEN Len(lines)
                ELSE (CHOOSE q \in later : \A r \in later : q <= r) - 1
        said == SelectSeq([i \in 1..(last - p + 1) |-> Contribution(lines[p + i - 1])],
                          LAMBDA c : c # <<>>)
    IN [speaker |-> CHOOSE sp \in {"ALEX", "SAM"} :
                        \E k \in 1..Len(lines[p]) : lines[p][k] = sp /\
                            \A j \in 1..(k - 1) : lines[p][j] = " ",
        text |-> Join(said, <<" ">>)]

\* C14: the segments are the turns of the script in order, each opened by a
\* line starting with 'ALEX:' or 'SAM:' and holding the following lines joined
\* by single spaces; lines before the first turn are discarded, turns without
\* text omitted, and every segment has a speaker and non-empty text.
C14_TurnsInOrder ==
    FnCalled("_parse_two_host_script") =>
        LET lines == fn_call.lines
            opening == SelectSeq([i \in 1..Len(lines) |-> i],
                                 LAMBDA i : OpensTurn(lines[i]))
            turns == [j \in 1..Len(opening) |-> TurnAt(lines, opening[j])]
        IN /\ fn_call.out = SelectSeq(turns, LAMBDA t : t.text # <<>>)
           /\ \A i \in 1..Len(fn_call.out) :
                 /\ fn_call.out[i].speaker \in {"ALEX", "SAM"}
                 /\ fn_call.out[i].text # <<>>
           /\ opening = <<>> => fn_call.out = <<>>

\* a discarded first line, a turn of two lines, an empty turn, a last turn
C14_Witness ==
    /\ FnCalled("_parse_two_host_script")
    /\ fn_call.lines = <<<<"w">>, <<"ALEX", ":", " ", "w">>, <<"w", " ", "w">>,
                         <<"ALEX", ":">>>>
    /\ fn_call.out = <<[speaker |-> "ALEX", text |-> <<"w", " ", "w", " ", "w">>]>>

\* the existing index was built with another model than the requested one
Mismatched ==
    /\ collection_exists
    /\ indexed_model # "none"
    /\ indexed_model # run_args.embedding_model

\* the step in which a run with a knowledge base directory initializes it
KBInitStep ==
    /\ run_pc \in {"load_kb", "cli_init_kb"}
    /\ run_args.kb_dir
    /\ run_pc' # run_pc

\* C18: on an index built with another model, initialization without
\* kb_rebuild exits with status 1 and leaves the store as it is, and
\* initialization with kb_rebuild does not exit with the mismatch error: the
\* mismatched collection is deleted, and what is indexed is indexed with the
\* requested model.
C18_MismatchThenRebuild ==
    [][(KBInitStep /\ Mismatched) =>
          IF run_args.kb_rebuild
          THEN /\ ~(run_pc' = "exited" /\ UNCHANGED <<collection_exists, points, indexed_model>>)
               /\ collection_exists' => indexed_model' = run_args.embedding_model
          ELSE /\ run_pc' = "exited"
               /\ exit_status' = 1
               /\ UNCHANGED <<collection_exists, points, indexed_model>>]_vars

\* a run of the cli's run_summarizer or run_podcast is under way or has ended
CliRun == run_pc # "idle" /\ run_args.prog \in {"cli", "cli_podcast"}

\* C24: in a cli run at most one KnowledgeBase is opened; while the run holds
\* it, it has not been closed; it is never closed twice; and when the run has
\* ended, on whatever way out, it has been closed exactly once.
C24_ClosedExactlyOnce ==
    CliRun =>
        /\ kb_opens <= 1
        /\ kb_closes <= kb_opens
        /\ (kb_ref /\ run_pc # "exited") => (kb_opens = 1 /\ kb_closes = 0)
        /\ run_pc = "exited" => kb_closes = kb_opens

\* a per-file run that held a knowledge base, wrote a summary, then failed on
\* a later file, and closed the knowledge base once
C24_Witness ==
    /\ CliRun
    /\ run_args.mode = "per_file"
    /\ run_pc = "exited"
    /\ exit_status = 1
    /\ kb_ref
    /\ written # <<>>
    /\ kb_opens = 1
    /\ kb_closes = 1

\* the run opened a knowledge base, init_kb found no file, closed it and
\* returned None
C24_NoFilesClosedOnce ==
    /\ CliRun
    /\ run_pc = "exited"
    /\ ~kb_ref
    /\ kb_opens = 1
    /\ kb_closes = 1
    /\ exit_status = 0

\* a run of main.py's run_summarizer or run_podcast is under way or has ended
MainRun == run_pc # "idle" /\ run_args.prog \in {"main", "main_podcast"}

\* C25: when a run of main.py that opened a knowledge base has exited with
\* status 1, kb.close() has been called.
C25_ClosedBeforeErrorExit ==
    (MainRun /\ run_pc = "exited" /\ exit_status = 1 /\ kb_opens > 0)
        => kb_closes = kb_opens

\* a step of KB initialization: the step that opens the knowledge base, or
\* main.py's indexing step after it
KBStep == KBInitStep \/ (run_pc = "index_kb" /\ run_pc' # run_pc)

\* C26: KB initialization leaves an existing collection as it is unless
\* kb_rebuild is set, indexes only into a collection that does not exist at
\* that moment, and so never leaves a chunk in the collection twice.
C26_NoSecondIndexing ==
    [][KBStep =>
          /\ (collection_exists /\ ~run_args.kb_rebuild)
                => UNCHANGED <<collection_exists, points>>
          /\ (run_pc = "index_kb" /\ points' # points) => ~collection_exists
          /\ points' = [j \in 1..Len(points') |-> CorpusDoc(j)]]_vars

\* a run of main.py found the collection of an earlier run, did not rebuild,
\* and went on to transcribe without an indexing step
C26_Witness ==
    /\ MainRun
    /\ run_args.prog = "main"
    /\ run_pc = "transcribe"
    /\ run_args.kb_dir /\ ~run_args.kb_rebuild
    /\ kb_ref
    /\ Len(points) = 2
    /\ \A i \in 1..Len(run_trace) : run_trace[i].ev # "index"

\* a cli run rebuilt a populated collection: it holds one copy of the
\* directory's chunks
C26_Rebuilt ==
    /\ CliRun
    /\ run_args.kb_dir /\ run_args.kb_rebuild
    /\ kb_ref
    /\ indexed_model = run_args.embedding_model
    /\ points = <<CorpusDoc(1)>>

\* the characters of a name before its first ':' (all of them without one)
BeforeColon(name) ==
    LET colons == {i \in 1..Len(name) : name[i] = ":"}
    IN IF colons = {} THEN name
       ELSE SubSeq(name, 1, (CHOOSE i \in colons : \A j \in colons : i <= j) - 1)

\* C15: check_ollama accepts a tagged name only if exactly that name is
\* available and an untagged name only if it is the part before ':' of an
\* available model; any other name exits with status 1.
C15_ModelMatching ==
    (FnCalled("check_ollama") /\ fn_call.listed) =>
        LET m == fn_call.llm_model
            available == {fn_call.available[i] : i \in 1..Len(fn_call.available)}
            tagged == ":" \in {m[i] : i \in 1..Len(m)}
        IN /\ fn_call.exited => fn_call.exit_status = 1
           /\ ~fn_call.exited <=>
                 IF tagged THEN m \in available
                 ELSE \E name \in available : BeforeColon(name) = m

\* 'a' is rejected though 'ab:b' is available, whose base it is a prefix of
C15_Witness ==
    /\ FnCalled("check_ollama")
    /\ fn_call.llm_model = <<"a">>
    /\ fn_call.available = <<<<"a", "b", ":">>, <<"b", ":", "a">>>>
    /\ fn_call.exited

\* the value the config gives for an environment variable, if any
ConfigFor(name) ==
    IF fn_call.llm_config.shape # "llm" THEN {}
    ELSE IF name = "OPENAI_API_KEY" THEN fn_call.llm_config.openai_api_key
    ELSE IF name = "ANTHROPIC_API_KEY" THEN fn_call.llm_config.anthropic_api_key
    ELSE {}

\* C19: _set_api_keys_from_config gives OPENAI_API_KEY / ANTHROPIC_API_KEY
\* the config's value only where the variable is unset or empty and the
\* config's value is non-empty; a variable that has a value keeps it, no
\* other variable changes, and a missing or empty config changes nothing.
C19_KeysOnlyWhenUnset ==
    FnCalled("_set_api_keys_from_config") =>
        LET before == fn_call.environ
            after == fn_call.environ_after
        IN /\ \A name \in EnvNames :
                 after[name] # before[name] =>
                    /\ name \in {"OPENAI_API_KEY", "ANTHROPIC_API_KEY"}
                    /\ before[name] \in {{}, {""}}
                    /\ after[name] = ConfigFor(name)
           /\ \A name \in {"OPENAI_API_KEY", "ANTHROPIC_API_KEY"} :
                 (before[name] \in {{}, {""}} /\ ConfigFor(name) \notin {{}, {""}})
                    => after[name] = ConfigFor(name)
           /\ fn_call.llm_config.shape \in {"None", "empty"} => after = before

\* OPENAI_API_KEY has a value and keeps it against the config's; the empty
\* ANTHROPIC_API_KEY takes the config's
C19_Witness ==
    /\ FnCalled("_set_api_keys_from_config")
    /\ fn_call.environ["OPENAI_API_KEY"] = {"env-key"}
    /\ fn_call.environ["ANTHROPIC_API_KEY"] = {""}
    /\ fn_call.llm_config.shape = "llm"
    /\ fn_call.llm_config.openai_api_key = {"cfg-a"}
    /\ fn_call.llm_config.anthropic_api_key = {"cfg-b"}
    /\ fn_call.environ_after["OPENAI_API_KEY"] = {"env-key"}
    /\ fn_call.environ_after["ANTHROPIC_API_KEY"] = {"cfg-b"}

\* the pieces that are file suffixes
Suffixes == {".wav", ".files"}

\* aiff differs from out only in the final suffix: out's suffix, if it has
\* one, is replaced by ".aiff", which is appended otherwise
FinalSuffixOnly(out, aiff) ==
    \E n \in 0..Len(out) :
       /\ aiff = SubSeq(out, 1, n) \o <<".aiff">>
       /\ \/ n = Len(out) /\ (out = <<>> \/ out[Len(out)] \notin Suffixes)
          \/ n = Len(out) - 1 /\ out[Len(out)] \in Suffixes

\* C20: the AIFF path of MacOSSay.synthesize differs from the output path
\* only in the final suffix, is never the output path, and deleting the AIFF
\* file leaves the output file in place.
C20_AiffPathSuffixOnly ==
    FnCalled("synthesize") =>
        /\ FinalSuffixOnly(fn_call.output_path, fn_call.aiff_path)
        /\ fn_call.aiff_path # fn_call.output_path
        /\ fn_call.output_path \in fn_call.files

\* C21: parsing the transcript written for a list of segments returns as
\* many segments with the same start times and texts, each ending where the
\* next starts and the last one second after its start.
C21_TranscriptRoundTrip ==
    FnCalled("parse_transcript") =>
        LET segments == fn_call.segments
            parsed == fn_call.parsed
        IN /\ Len(parsed) = Len(segments)
           /\ \A i \in 1..Len(segments) :
                 /\ parsed[i].start = segments[i].start
                 /\ parsed[i].text = segments[i].text
                 /\ parsed[i].end = IF i < Len(segments) THEN segments[i + 1].start
                                    ELSE segments[i].start + 1

\* C27: whenever _is_model_installed answers true for a model and a list of
\* available models, check_ollama finds the same model in the same list.
C27_InstalledImpliesAccepted ==
    (FnCalled("is_model_installed") /\ fn_call.installed) => fn_call.found

(***************************************************************************)
(* Specifications: one per subsystem, the others staying idle              *)
(***************************************************************************)
Init == KBInit /\ LLMInit /\ ChunkInit /\ RunInit /\ FnInit

SpecKB == Init /\ [][KBNext]_vars

SpecLLM == Init /\ [][LLMNext]_vars

SpecChunk == Init /\ [][ChunkNext]_vars

SpecRun == Init /\ [][RunNext]_vars

SpecFn == Init /\ [][FnNext]_vars

====
